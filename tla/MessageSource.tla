--------------------------- MODULE MessageSource ---------------------------
(***************************************************************************)
(* What GetMessage and PeekMessage promise a program, whatever the shape of  *)
(* the queue: posted messages come out in the order they were posted, none   *)
(* lost and none twice, and WM_QUIT and WM_PAINT, which are made up on       *)
(* demand, never overtake a posted message.                                  *)
(***************************************************************************)
EXTENDS Naturals, Sequences, SequencesExt

CONSTANTS Made,         \* the messages made up on demand
          None,         \* the program's MSG holds nothing it has yet to handle
          Capacity      \* posted messages the source can hold

VARIABLES fifo,         \* messages posted and not yet taken
          msg           \* the MSG the program fetched last

SInit == fifo = <<>> /\ msg = None

\* Messages are posted, by the program or by timers, behind the older ones.
Post == IsPrefix(fifo, fifo') /\ Len(fifo') <= Capacity

\* The oldest message is taken; due timers may have posted just before.
Take == /\ IF fifo = <<>> THEN msg' \notin Made \cup {None}
           ELSE msg' = Head(fifo) /\ IsPrefix(Tail(fifo), fifo')
        /\ Len(fifo') < Capacity

\* The oldest message is looked at.
Look == Post /\ fifo' # <<>> /\ msg' = Head(fifo')

\* With nothing posted, a message is made up.
Make == fifo = <<>> /\ fifo' = <<>> /\ msg' \in Made

SNext == (Post /\ UNCHANGED msg) \/ Take \/ Look \/ Make \/ (msg' = None /\ UNCHANGED fifo)
SSpec == SInit /\ [][SNext]_<<fifo, msg>>
=============================================================================
