--------------------------------- MODULE Blk ---------------------------------
(***************************************************************************)
(* The BLK subsystem over one medium: the words of BlkCtl, and a driver    *)
(* that moves a block one sector at a time.                                *)
(*                                                                         *)
(* Outside says what may go wrong around the subsystem:                    *)
(*   "abort"  the driver may fail and ABORT (SDerr, FDerr);                *)
(*   "noblk"  words that change or store the buffer may run while no block *)
(*            is active, as the line editor's do after a FLUSH (VE checks  *)
(*            first: blk.fs B032).                                         *)
(* Without "noblk" the subsystem keeps the promise of BlockStore, power    *)
(* cuts and failing drivers included.                                      *)
(***************************************************************************)
EXTENDS BlkCtl

CONSTANT Outside

ASSUME OutsideAssumption == Outside \subseteq {"abort", "noblk"}

VARIABLES
  disk,    \* what the driver finds under each number, NoBlk included
  torn     \* a driver gave up over a clean buffer, and none has succeeded since

vars == <<disk, torn, cvars>>

TypeOK ==
  /\ CtlTypeOK
  /\ disk \in [AllBlks -> Data]
  /\ torn \in BOOLEAN

Init ==
  /\ CtlInit
  /\ disk \in [AllBlks -> Data]
  /\ torn = FALSE

PutSector ==
  /\ CtlPut
  /\ disk' = [disk EXCEPT ![BLKat][sec] = buf[sec]]
  /\ UNCHANGED torn

GetSector ==
  /\ CtlGet(disk[BLKat][sec])
  /\ UNCHANGED <<disk, torn>>

MayTouch == BLKat # NoBlk \/ "noblk" \in Outside

Word ==
  /\ \/ FLUSH
     \/ KeepFlush
     \/ \E n \in Blks : BLKfetch(n)
     \/ \E s, d \in Blks : COPY(s, d)
     \/ /\ MayTouch
        /\ \/ BLKstore
           \/ Reload
           \/ WIPE
           \/ \E s \in Sectors, v \in Vals : Edit(s, v)
  /\ UNCHANGED <<disk, torn>>

Returns ==
  /\ PutReturns \/ GetReturns
  /\ torn' = FALSE
  /\ UNCHANGED disk

Abort ==
  /\ "abort" \in Outside
  /\ CtlAbort
  /\ torn' = (torn \/ ~BLKDTY)
  /\ UNCHANGED disk

PowerCycle == CtlBoot /\ torn' = FALSE /\ UNCHANGED disk

Next ==
  \/ Word
  \/ PutSector
  \/ GetSector
  \/ Returns
  \/ Abort
  \/ PowerCycle

Spec == Init /\ [][Next]_vars

-----------------------------------------------------------------------------
(* The promise. *)

\* Between two words, a clean buffer with a number holds that block, byte for
\* byte: what LIST shows and LOAD runs is what is on the medium
\* (doc/blk.txt:21, "The index of the block currently in memory is kept in
\* BLK>").
HoldsItsBlock ==
  pc = "ready" /\ ~BLKDTY /\ BLKat # NoBlk => buf = disk[BLKat]

\* It does, except after a driver call that failed over a clean buffer, until
\* the next one that succeeds.
Coherent == ~torn => HoldsItsBlock

\* "-1 means invalid" (blk.fs B230): the driver is never asked to write it.
InvalidNeverWritten == pc = "put" => BLKat # NoBlk

\* The same of what FLUSH saves because a word changed it.  It does not hold
\* once words change the buffer while no block is active (WIPE, P and the
\* words that call BLK!! after a FLUSH): FLUSH then asks for block -1.
ChangesHaveBlock == pc = "put" /\ BLKDTY => BLKat # NoBlk

\* Unsaved changes stay with the block they were made to: BLK> moves only
\* when the buffer is clean.
DirtyKeepsBlock ==
  [][ BLKDTY /\ BLKDTY' => BLKat' = BLKat ]_vars

-----------------------------------------------------------------------------
(* Why it holds. *)

\* What a word in progress has established: the sectors already moved agree;
\* a block is fetched only over a clean buffer; only a fetch can be part of a
\* COPY; and a word that is to fetch a block knows which.
Progress ==
  /\ pc # "ready" => \A s \in Sectors : s < sec => disk[BLKat][s] = buf[s]
  /\ pc = "get" => after \in {"fetch", "reload"}
  /\ pc = "get" /\ after = "fetch" => ~BLKDTY
  /\ pc = "put" => after # "reload"
  /\ dst # NoBlk => after = "fetch"
  /\ pc = "put" /\ after = "fetch" => want # NoBlk

\* Unsaved changes and driver calls belong to a numbered block.
Numbered == BLKDTY \/ pc # "ready" => BLKat # NoBlk

\* All three together are inductive (Numbered as long as no word touches an
\* empty buffer).
Inductive == TypeOK /\ Progress /\ Numbered

-----------------------------------------------------------------------------
\* The refinement: the user's view of a block is the buffer while it holds
\* changes (or while a COPY is on its way out), the medium otherwise.
view == [n \in AllBlks |->
           IF n = BLKat /\ (BLKDTY \/ pc = "put") THEN buf ELSE disk[n]]

Store == INSTANCE BlockStore WITH content <- view, saved <- disk, active <- BLKat

\* Every step of the subsystem is a step of the store of BlockStore or none.
StoreSpec == Store!Spec
=============================================================================
