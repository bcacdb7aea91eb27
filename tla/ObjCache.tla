------------------------------- MODULE ObjCache -----------------------------
(***************************************************************************)
(* The object cache of the build driver: builds in their own output            *)
(* directories share one cache directory, look an object up by the source's    *)
(* key and the digest of every file the preprocessor read last time, and       *)
(* otherwise compile and store.  A build may be killed between any two steps.  *)
(* Contents are small numbers, a digest is what it is a digest of, an object   *)
(* is the contents it was compiled from.                                       *)
(***************************************************************************)
EXTENDS Naturals, Sequences, FiniteSets, SequencesExt

CONSTANTS Builds,       \* builds, each with a process id and an output directory of its own
          Includes(_),  \* the further files a header of that content includes
          Budget        \* ARET_OBJCACHE_MAX_MB, in objects
ASSUME CacheAssumption == Budget \in Nat \ {0}

VARIABLES disk,         \* the files of each output directory: source "c", headers "h" and "g"
          manifest,     \* the .dep file of each key
          objects,      \* the .o files, least recently used first
          build,        \* each build: where it is, its key, digest, dependencies and object
          warm          \* ghost: builds whose object nothing has touched since it was stored
cacheVars == <<disk, manifest, objects, build, warm>>

Missing == 0
Sources == {1, 2}
NoDigest == <<>>
IdleBuild == [at |-> "idle", key |-> Missing, digest |-> NoDigest, deps |-> {}, obj |-> NoDigest]
CacheInit == /\ disk = [b \in Builds |-> [f \in {"c", "h", "g"} |-> 1]]
             /\ manifest = [k \in Sources |-> {}]
             /\ objects = <<>>
             /\ build = [b \in Builds |-> IdleBuild]
             /\ warm = {}

Needed(b) == {"c", "h"} \cup Includes(disk[b]["h"])
Compiles(b) == \A f \in Needed(b) : disk[b][f] # Missing
Object(b) == [f \in Needed(b) |-> disk[b][f]]
SourceOnly(b, k) == IF manifest[k] = {} THEN NoDigest ELSE [f \in {"c"} |-> disk[b][f]]
\* The listed files with their contents; none when there is no manifest or a file is gone.
dep_digest(b, k) ==
    IF manifest[k] = {} \/ \E f \in manifest[k] : disk[b][f] = Missing THEN NoDigest
    ELSE [f \in manifest[k] |-> disk[b][f]]
Found(k, d) == {i \in DOMAIN objects : objects[i].key = k /\ objects[i].digest = d}
At(b, here) == build[b].at = here
Go(b, there) == build' = [build EXCEPT ![b].at = there]

-----------------------------------------------------------------------------
begin(b) ==
    /\ At(b, "idle")
    /\ build' = [build EXCEPT ![b] = [IdleBuild EXCEPT !.at = "lookup", !.key = disk[b]["c"]]]
    /\ UNCHANGED <<disk, manifest, objects, warm>>
\* lookup, in two steps: the digest, then the copy of the object with that name.  Touching it may
\* or may not make it the youngest.
lookup_digest(b) ==
    /\ At(b, "lookup")
    /\ LET d == dep_digest(b, build[b].key)
       IN  build' = [build EXCEPT ![b].digest = d, ![b].at = IF d = NoDigest THEN "compile" ELSE "copy"]
    /\ UNCHANGED <<disk, manifest, objects, warm>>
lookup(b) ==
    /\ At(b, "copy")
    /\ LET hit == Found(build[b].key, build[b].digest)
       IN  IF hit = {} THEN Go(b, "compile") /\ UNCHANGED objects
           ELSE LET i == CHOOSE i \in hit : TRUE
                IN  /\ build' = [build EXCEPT ![b].obj = objects[i].obj, ![b].at = "reused"]
                    /\ objects' \in {objects, Append(RemoveAt(objects, i), objects[i])}
    /\ UNCHANGED <<disk, manifest, warm>>
\* The compiler, and what its -MD list names.
compile(b) ==
    /\ At(b, "compile")
    /\ build' = IF Compiles(b) THEN [build EXCEPT ![b].obj = Object(b), ![b].deps = Needed(b), ![b].at = "manifest"]
                ELSE [build EXCEPT ![b] = IdleBuild]
    /\ UNCHANGED <<disk, manifest, objects, warm>>
\* store: the manifest; then the digest, from what the manifest says by now; then the object,
\* renamed to its name, over an older one.
atomic_write(b) ==
    /\ At(b, "manifest")
    /\ manifest' = [manifest EXCEPT ![build[b].key] = build[b].deps]
    /\ warm' = {c \in warm : build[b].key # disk[c]["c"] \/ manifest[build[b].key] = build[b].deps}
    /\ Go(b, "digest") /\ UNCHANGED <<disk, objects>>
DigestOfOwnList(b) ==
    /\ At(b, "digest")
    /\ build' = [build EXCEPT ![b].digest = [f \in {"c", "h"} |-> disk[b][f]], ![b].at = "rename"]
    /\ UNCHANGED <<disk, manifest, objects, warm>>
store_digest(b) ==
    /\ At(b, "digest")
    /\ LET d == dep_digest(b, build[b].key)
       IN  build' = [build EXCEPT ![b].digest = d, ![b].at = IF d = NoDigest THEN "stored" ELSE "rename"]
    /\ UNCHANGED <<disk, manifest, objects, warm>>
store(b) ==
    /\ At(b, "rename")
    /\ LET old == Found(build[b].key, build[b].digest)
       IN  objects' = Append(IF old = {} THEN objects ELSE RemoveAt(objects, CHOOSE i \in old : TRUE),
                             [key |-> build[b].key, digest |-> build[b].digest, obj |-> build[b].obj])
    /\ warm' = IF manifest[build[b].key] = build[b].deps THEN warm \cup {b} ELSE warm
    /\ Go(b, "stored") /\ UNCHANGED <<disk, manifest>>
\* The least recently used objects go until the budget is met; manifests stay.
trim(b) ==
    /\ build[b].at \in {"reused", "stored"}
    /\ LET over == IF Len(objects) > Budget THEN Len(objects) - Budget ELSE 0
       IN  objects' = SubSeq(objects, over + 1, Len(objects))
    /\ warm' = {c \in warm : \E i \in DOMAIN objects' : objects'[i].key = disk[c]["c"] /\ objects'[i].obj = Object(c)}
    /\ build' = [build EXCEPT ![b] = IdleBuild] /\ UNCHANGED <<disk, manifest>>
Kill(b) == ~At(b, "idle") /\ build' = [build EXCEPT ![b] = IdleBuild] /\ UNCHANGED <<disk, manifest, objects, warm>>
\* The developer edits between builds of a directory.
Edit(b, f, v) == At(b, "idle") /\ disk[b][f] # v /\ disk' = [disk EXCEPT ![b][f] = v] /\ warm' = warm \ {b} /\ UNCHANGED <<manifest, objects, build>>

BuildStep(b) == begin(b) \/ lookup_digest(b) \/ lookup(b) \/ compile(b) \/ atomic_write(b) \/ store_digest(b) \/ store(b) \/ trim(b) \/ Kill(b)

\* Builds of sources S with headers H, one at a time or not.
CacheNext(S, H, serial) ==
    \E b \in Builds :
        \/ BuildStep(b) /\ (serial => \A c \in Builds \ {b} : At(c, "idle"))
        \/ \E v \in S : Edit(b, "c", v)
        \/ \E v \in H : Edit(b, "h", v)
        \/ \E v \in {Missing, 1, 2} : Edit(b, "g", v)
CacheSpec(S, H, serial) == CacheInit /\ [][CacheNext(S, H, serial)]_cacheVars

-----------------------------------------------------------------------------
\* A reused object is the one the compiler would have produced from the directory's files: a
\* header changed, added or deleted, a build killed half way, another build storing under the same
\* key, or an evicted entry costs a compile and never gives wrong bytes.
NeverWrongBytes == \A b \in Builds : At(b, "reused") => Compiles(b) /\ build[b].obj = Object(b)
\* What a build stored is found by the next one from the same files, unless it was evicted or a
\* build with other dependencies has replaced the manifest.
WarmBuildHits == \A b \in warm : Found(disk[b]["c"], dep_digest(b, disk[b]["c"])) # {}

\* The cache never gives wrong bytes and finds again what was stored.
CacheSound == NeverWrongBytes /\ WarmBuildHits
=============================================================================
