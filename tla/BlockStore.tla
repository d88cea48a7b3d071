----------------------------- MODULE BlockStore -----------------------------
(***************************************************************************)
(* What the BLK subsystem promises (doc/blk.txt): a store of numbered      *)
(* blocks, one of which may be active.  Only the active block is changed   *)
(* and only it can differ from what the medium holds; another block        *)
(* becomes active only when nothing is left to save; a power cut, or a     *)
(* driver that gives up, loses the unsaved changes of the active block and *)
(* nothing else.                                                           *)
(***************************************************************************)
EXTENDS Integers

CONSTANTS Blks, Vals

NoBlk == -1
AllBlks == Blks \cup {NoBlk}
Sectors == {0, 1}
Data == [Sectors -> Vals]

VARIABLES
  content,   \* what each block holds, for the user
  saved,     \* what it holds on the medium
  active     \* the block being worked on, NoBlk if none

svars == <<content, saved, active>>

Init ==
  /\ saved \in [AllBlks -> Data]
  /\ content = saved
  /\ active = NoBlk

Modify ==
  /\ active # NoBlk
  /\ \E d \in Data : content' = [content EXCEPT ![active] = d]
  /\ UNCHANGED <<saved, active>>

SaveSector(s) ==
  /\ active # NoBlk
  /\ saved' = [saved EXCEPT ![active][s] = content[active][s]]
  /\ UNCHANGED <<content, active>>

RevertSector(s) ==
  /\ active # NoBlk
  /\ content' = [content EXCEPT ![active][s] = saved[active][s]]
  /\ UNCHANGED <<saved, active>>

Select(n) ==
  /\ content = saved
  /\ active' = n
  /\ UNCHANGED <<content, saved>>

CopyTo(n) ==
  /\ content = saved
  /\ active # NoBlk
  /\ content' = [content EXCEPT ![n] = content[active]]
  /\ active' = n
  /\ UNCHANGED saved

Forget ==
  /\ active # NoBlk
  /\ content' = [content EXCEPT ![active] = saved[active]]
  /\ UNCHANGED <<saved, active>>

Crash ==
  /\ content' = saved
  /\ active' = NoBlk
  /\ UNCHANGED saved

Next ==
  \/ Modify
  \/ \E s \in Sectors : SaveSector(s) \/ RevertSector(s)
  \/ \E n \in AllBlks : Select(n)
  \/ \E n \in Blks : CopyTo(n)
  \/ Forget
  \/ Crash

Spec == Init /\ [][Next]_svars
=============================================================================
