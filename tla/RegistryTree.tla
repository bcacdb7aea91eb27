---------------------------- MODULE RegistryTree ----------------------------
(***************************************************************************)
(* What the registry promises, whatever table holds it: a tree of keys named *)
(* by their paths, each with named values.                                   *)
(***************************************************************************)
EXTENDS Naturals, Sequences, SequencesExt

CONSTANT Hives          \* the predefined roots
VARIABLES keys,         \* the paths of the keys that exist, <<hive, name, ...>>
          vals          \* the values, [path, name, type, data]

TInit == keys = {<<h>> : h \in Hives} /\ vals = {}

\* A key is created with the keys on its way; a creation that fails half way keeps those.
CreateKey == /\ \E p \in keys' : keys' = keys \cup {SubSeq(p, 1, n) : n \in 1..Len(p)}
             /\ UNCHANGED vals

\* A key is deleted with everything below it.
DeleteKey == \E p \in keys :
    /\ Len(p) > 1
    /\ keys' = {q \in keys : ~IsPrefix(p, q)}
    /\ vals' = {v \in vals : v.path \in keys'}

\* A value is written over the value of that name, if there is one.
SetValue == /\ \E v \in vals' : /\ v.path \in keys
                                /\ vals' = {w \in vals : <<w.path, w.name>> # <<v.path, v.name>>} \cup {v}
            /\ UNCHANGED keys

DeleteValue == (\E v \in vals : vals' = vals \ {v}) /\ UNCHANGED keys

TNext == CreateKey \/ DeleteKey \/ SetValue \/ DeleteValue
TSpec == TInit /\ [][TNext]_<<keys, vals>>
=============================================================================
