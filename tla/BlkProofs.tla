------------------------------ MODULE BlkProofs ------------------------------
(***************************************************************************)
(* Proofs about the BLK subsystem, for any set of blocks and any sector    *)
(* contents: type correctness, the inductive invariant Progress, coherence *)
(* of the buffer, that unsaved changes are neither forgotten nor moved to  *)
(* another block, whatever the drivers do, and that the words implement    *)
(* BlockStore.                                                             *)
(***************************************************************************)
EXTENDS BlkPower, TLAPS

LEMMA NoBlkNotInBlks == NoBlk \notin Blks
  BY BlksAssumption DEF NoBlk

LEMMA SectorArithmetic ==
  /\ \A n \in 0..2 : n \in Sectors => n + 1 \in 0..2
  /\ \A n \in 0..2 : n \notin Sectors => n = 2
  /\ \A s \in Sectors : s < 2 /\ ~(s < 0)
  /\ \A n \in Sectors, s \in Sectors : s < n + 1 => s < n \/ s = n
  BY DEF Sectors

-----------------------------------------------------------------------------
(* Type correctness. *)

\* The state between two words is well typed.
LEMMA TypeInit == Init => TypeOK
<1>1. 0 \in 0..2
  OBVIOUS
<1>2. QED
  BY <1>1, Zenon DEF Init, CtlInit, TypeOK, CtlTypeOK, AllBlks

\* Every step of a word, of the driver and of the environment keeps the types.
LEMMA TypeStep == TypeOK /\ [Next]_vars => TypeOK'
<1> SUFFICES ASSUME TypeOK, [Next]_vars PROVE TypeOK'
  OBVIOUS
<1> USE DEF TypeOK, CtlTypeOK, AllBlks
<1>1. CASE Word
  <2>1. CASE FLUSH
    BY <1>1, <2>1 DEF Word, FLUSH, FlushThen, StartPut, Continue, Ready
  <2>2. CASE KeepFlush
    BY <1>1, <2>2 DEF Word, KeepFlush, FlushThen, StartPut, Continue, Ready
  <2>3. ASSUME NEW n \in Blks, BLKfetch(n) PROVE TypeOK'
    BY <1>1, <2>3 DEF Word, BLKfetch, FlushThen, StartPut, StartGet, Continue, Ready
  <2>4. ASSUME NEW s \in Blks, NEW d \in Blks, COPY(s, d) PROVE TypeOK'
    BY <1>1, <2>4 DEF Word, COPY, FlushThen, StartPut, StartGet, Continue, Ready
  <2>5. CASE BLKstore
    BY <1>1, <2>5 DEF Word, BLKstore, StartPut
  <2>6. CASE Reload
    BY <1>1, <2>6 DEF Word, Reload, StartGet
  <2>7. CASE WIPE
    BY <1>1, <2>7, ValsAssumption DEF Word, WIPE, Data
  <2>8. ASSUME NEW s \in Sectors, NEW v \in Vals, Edit(s, v) PROVE TypeOK'
    BY <1>1, <2>8 DEF Word, Edit, Data
  <2>9. QED
    BY <1>1, <2>1, <2>2, <2>3, <2>4, <2>5, <2>6, <2>7, <2>8 DEF Word
<1>2. CASE PutSector
  <2>1. sec \in Sectors /\ sec + 1 \in 0..2
    BY <1>2, SectorArithmetic DEF PutSector, CtlPut
  <2>2. disk' \in [AllBlks -> Data]
    BY <1>2, <2>1 DEF PutSector, Data
  <2>3. QED
    BY <1>2, <2>1, <2>2 DEF PutSector, CtlPut
<1>3. CASE GetSector
  <2>1. sec \in Sectors /\ sec + 1 \in 0..2
    BY <1>3, SectorArithmetic DEF GetSector, CtlGet
  <2>2. buf' \in Data
    BY <1>3, <2>1 DEF GetSector, CtlGet, Data
  <2>3. QED
    BY <1>3, <2>1, <2>2 DEF GetSector, CtlGet
<1>4. CASE Returns
  <2> torn' \in BOOLEAN
    BY <1>4, Zenon DEF Returns
  <2>1. CASE PutReturns
    <3>1. /\ pc' \in {"ready", "get"} /\ sec' = 0 /\ after' \in {"done", "fetch"}
          /\ want' = NoBlk /\ dst' \in {NoBlk, dst} /\ BLKat' \in {BLKat, NoBlk, want}
      BY <2>1, Zenon DEF PutReturns, Continue, StartGet, Ready
    <3>2. BLKDTY' = FALSE /\ buf' = buf /\ disk' = disk
      BY <1>4, <2>1 DEF Returns, PutReturns
    <3>3. BLKDTY' \in BOOLEAN
      BY <3>2, Zenon
    <3>4. sec' \in 0..2
      BY <3>1
    <3>5. QED
      BY <3>1, <3>2, <3>3, <3>4, Zenon
  <2>2. CASE GetReturns
    <3>1. sec' \in 0..2
      BY <2>2 DEF GetReturns, StartPut, Ready
    <3>2. BLKDTY' \in BOOLEAN
      BY <2>2, Zenon DEF GetReturns
    <3>3. QED
      BY <1>4, <2>2, <3>1, <3>2, Zenon DEF Returns, GetReturns, StartPut, Ready
  <2>3. QED
    BY <1>4, <2>1, <2>2 DEF Returns
<1>5. CASE Abort
  <2>1. buf' \in Data
    <3>1. CASE UNCHANGED buf
      BY <3>1
    <3>2. CASE \E v \in Vals : buf' = [buf EXCEPT ![sec] = v]
      BY <3>2 DEF Data
    <3>3. QED
      BY <1>5, <3>1, <3>2 DEF Abort, CtlAbort
  <2>2. torn' \in BOOLEAN
    BY <1>5, Zenon DEF Abort
  <2>3. QED
    BY <1>5, <2>1, <2>2 DEF Abort, CtlAbort, Ready
<1>6. CASE PowerCycle
  <2>1. BLKDTY' \in BOOLEAN
    BY <1>6, Zenon DEF PowerCycle, CtlBoot
  <2>2. sec' \in 0..2
    BY <1>6 DEF PowerCycle, CtlBoot, Ready
  <2>3. QED
    BY <1>6, <2>1, <2>2, Zenon DEF PowerCycle, CtlBoot, Ready
<1>7. CASE UNCHANGED vars
  BY <1>7 DEF vars, cvars
<1>8. QED
  BY <1>1, <1>2, <1>3, <1>4, <1>5, <1>6, <1>7 DEF Next

\* The variables always have their types (blk.fs B230-B231).
THEOREM TypeCorrect == Spec => []TypeOK
<1>1. Init => TypeOK                    BY TypeInit
<1>2. TypeOK /\ [Next]_vars => TypeOK'  BY TypeStep
<1>3. QED                               BY <1>1, <1>2, PTL DEF Spec

-----------------------------------------------------------------------------
(* Progress is inductive, whatever happens around the subsystem. *)

\* No word is running at power-up.
LEMMA ProgressInit == Init => Progress
  BY DEF Init, CtlInit, Progress

\* A word that has just returned, or been ABORTed, has nothing in progress.
LEMMA ReadyProgress == Ready => Progress'
  BY DEF Ready, Progress

\* A word that enters the driver has moved no sector yet.
LEMMA StartProgress ==
  /\ \A n \in AllBlks : StartPut("done", n, NoBlk) => Progress'
  /\ \A n \in AllBlks : StartPut("free", n, NoBlk) => Progress'
  /\ \A n \in Blks, d \in AllBlks : StartPut("fetch", n, d) => Progress'
  /\ \A d \in AllBlks : StartGet("fetch", d) /\ BLKDTY' = FALSE => Progress'
  /\ StartGet("reload", NoBlk) => Progress'
<1> USE NoBlkNotInBlks DEF Progress, Sectors
<1>1. \A n \in AllBlks : StartPut("done", n, NoBlk) => Progress'
  BY DEF StartPut
<1>2. \A n \in AllBlks : StartPut("free", n, NoBlk) => Progress'
  BY DEF StartPut
<1>3. \A n \in Blks, d \in AllBlks : StartPut("fetch", n, d) => Progress'
  BY DEF StartPut
<1>4. \A d \in AllBlks : StartGet("fetch", d) /\ BLKDTY' = FALSE => Progress'
  BY DEF StartGet
<1>5. StartGet("reload", NoBlk) => Progress'
  BY DEF StartGet
<1>6. QED
  BY <1>1, <1>2, <1>3, <1>4, <1>5

\* A FLUSH at the head of a word either enters the driver or goes on.
LEMMA FlushProgress ==
  ASSUME TypeOK,
         NEW next \in {"done", "free", "fetch"},
         NEW n \in AllBlks, NEW d \in AllBlks,
         next = "fetch" => n \in Blks,
         next # "fetch" => d = NoBlk,
         FlushThen(next, n, d)
  PROVE  Progress'
<1>1. CASE BLKDTY
  BY <1>1, StartProgress DEF FlushThen
<1>2. CASE ~BLKDTY
  <2>1. BLKDTY' = FALSE
    BY <1>2, Zenon DEF FlushThen, TypeOK, CtlTypeOK
  <2>2. Continue(next, n, d)
    BY <1>2 DEF FlushThen
  <2>3. QED
    BY <2>1, <2>2, StartProgress, ReadyProgress, Zenon DEF Continue
<1>3. QED
  BY <1>1, <1>2

LEMMA ProgressStep == TypeOK /\ Progress /\ [Next]_vars => Progress'
<1> SUFFICES ASSUME TypeOK, Progress, [Next]_vars PROVE Progress'
  OBVIOUS
<1> NoBlk \in AllBlks /\ Blks \subseteq AllBlks
  BY DEF AllBlks
<1>1. CASE Word
  <2>1. CASE FLUSH
    BY <2>1, FlushProgress DEF FLUSH
  <2>2. CASE KeepFlush
    BY <2>2, FlushProgress DEF KeepFlush
  <2>3. ASSUME NEW n \in Blks, BLKfetch(n) PROVE Progress'
    BY <2>3, FlushProgress DEF BLKfetch
  <2>4. ASSUME NEW s \in Blks, NEW d \in Blks, COPY(s, d) PROVE Progress'
    BY <2>4, FlushProgress DEF COPY
  <2>5. CASE BLKstore
    BY <2>5, StartProgress DEF BLKstore
  <2>6. CASE Reload
    BY <2>6, StartProgress DEF Reload
  <2>7. CASE WIPE
    BY <2>7 DEF WIPE, Progress
  <2>8. ASSUME NEW s \in Sectors, NEW v \in Vals, Edit(s, v) PROVE Progress'
    BY <2>8 DEF Edit, Progress
  <2>9. QED
    BY <1>1, <2>1, <2>2, <2>3, <2>4, <2>5, <2>6, <2>7, <2>8 DEF Word
<1>2. CASE PutSector
  <2>1. BLKat \in AllBlks /\ buf \in Data /\ disk \in [AllBlks -> Data]
    BY DEF TypeOK, CtlTypeOK
  <2>2. ASSUME NEW s \in Sectors, s < sec' PROVE disk'[BLKat'][s] = buf'[s]
    BY <1>2, <2>1, <2>2 DEF PutSector, CtlPut, Progress, Sectors, Data
  <2>3. QED
    BY <1>2, <2>2 DEF PutSector, CtlPut, Progress
<1>3. CASE GetSector
  <2>1. BLKat \in AllBlks /\ buf \in Data /\ disk \in [AllBlks -> Data]
    BY DEF TypeOK, CtlTypeOK
  <2>2. ASSUME NEW s \in Sectors, s < sec' PROVE disk'[BLKat'][s] = buf'[s]
    BY <1>3, <2>1, <2>2 DEF GetSector, CtlGet, Progress, Sectors, Data
  <2>3. QED
    BY <1>3, <2>2 DEF GetSector, CtlGet, Progress
<1>4. CASE PutReturns
  <2>1. BLKDTY' = FALSE /\ Continue(after, want, dst) /\ dst \in AllBlks
    BY <1>4, Zenon DEF PutReturns, TypeOK, CtlTypeOK
  <2>2. QED
    BY <2>1, StartProgress, ReadyProgress, Zenon DEF Continue
<1>5. CASE GetReturns
  BY <1>5, StartProgress, ReadyProgress DEF GetReturns
<1>6. CASE Abort
  BY <1>6, ReadyProgress DEF Abort, CtlAbort
<1>7. CASE PowerCycle
  BY <1>7, ReadyProgress DEF PowerCycle, CtlBoot
<1>8. CASE UNCHANGED vars
  BY <1>8 DEF vars, cvars, Progress
<1>9. QED
  BY <1>1, <1>2, <1>3, <1>4, <1>5, <1>6, <1>7, <1>8 DEF Next, Returns

\* The inductive invariant the other results rest on.
THEOREM ProgressHolds == Spec => [](TypeOK /\ Progress)
<1>1. Init => TypeOK /\ Progress
  BY TypeInit, ProgressInit
<1>2. (TypeOK /\ Progress) /\ [Next]_vars => (TypeOK /\ Progress)'
  BY TypeStep, ProgressStep
<1>3. QED
  BY <1>1, <1>2, PTL DEF Spec

-----------------------------------------------------------------------------
(* Coherence. *)

\* Two buffers that agree sector by sector are equal.
LEMMA SectorsAgree ==
  ASSUME NEW a \in Data, NEW b \in Data, \A s \in Sectors : a[s] = b[s]
  PROVE  a = b
  BY DEF Data

\* When the driver returns, the buffer and the block on the medium are equal.
LEMMA DriverDone ==
  ASSUME TypeOK, Progress, pc # "ready", sec = 2
  PROVE  disk[BLKat] = buf
<1>1. \A s \in Sectors : disk[BLKat][s] = buf[s]
  BY DEF Progress, Sectors
<1>2. disk[BLKat] \in Data /\ buf \in Data
  BY DEF TypeOK, CtlTypeOK
<1>3. QED
  BY <1>1, <1>2, SectorsAgree

LEMMA CoherentStep == TypeOK /\ Progress /\ Coherent /\ [Next]_vars => Coherent'
<1> USE DEF HoldsItsBlock
<1> SUFFICES ASSUME TypeOK, Progress, Coherent, [Next]_vars,
                    ~torn', pc' = "ready", ~BLKDTY', BLKat' # NoBlk
             PROVE  buf' = disk'[BLKat']
  BY DEF Coherent
<1>1. ASSUME NEW next, NEW n, NEW d, FlushThen(next, n, d), UNCHANGED <<disk, torn>>
      PROVE  buf' = disk'[BLKat']
  BY <1>1 DEF FlushThen, StartPut, Continue, Ready, StartGet, Coherent
<1>2. CASE Word
  BY <1>1, <1>2 DEF Word, FLUSH, KeepFlush, BLKfetch, COPY, BLKstore, StartPut,
                    Reload, StartGet, WIPE, Edit
<1>3. CASE PutReturns /\ UNCHANGED disk
  <2>1. BLKat' = BLKat
    BY <1>3 DEF PutReturns, Continue, StartGet, Ready
  <2>2. QED
    BY <1>3, <2>1, DriverDone DEF PutReturns
<1>4. CASE GetReturns /\ UNCHANGED disk
  <2>1. BLKat' = BLKat
    BY <1>4 DEF GetReturns, StartPut
  <2>2. QED
    BY <1>4, <2>1, DriverDone DEF GetReturns
<1>5. CASE UNCHANGED vars
  BY <1>5 DEF vars, cvars, Coherent
<1>6. CASE Abort
  BY <1>6, Zenon DEF Abort, CtlAbort
<1>7. QED
  BY <1>2, <1>3, <1>4, <1>5, <1>6
  DEF Next, Returns, PutSector, CtlPut, GetSector, CtlGet, PowerCycle, CtlBoot

\* A clean buffer is the block it claims to be, on any medium (BLK@, FLUSH,
\* COPY, VE's @ and !, power cuts), unless the last driver call gave up over a
\* clean buffer.
THEOREM Coherence == Spec => []Coherent
<1>1. Init => Coherent
  BY DEF Init, CtlInit, Coherent, HoldsItsBlock
<1>2. TypeOK /\ Progress /\ Coherent /\ [Next]_vars => Coherent'
  BY CoherentStep
<1>3. QED
  BY <1>1, <1>2, ProgressHolds, PTL DEF Spec

-----------------------------------------------------------------------------
(* The invalid block number. *)

LEMMA NumberedStep ==
  ASSUME "noblk" \notin Outside
  PROVE  TypeOK /\ Progress /\ Numbered /\ [Next]_vars => Numbered'
<1> SUFFICES ASSUME TypeOK, Progress, Numbered, [Next]_vars PROVE Numbered'
  OBVIOUS
<1> USE NoBlkNotInBlks DEF Numbered
<1>1. ASSUME NEW next, NEW n \in Blks, NEW d, FlushThen(next, n, d)
      PROVE  Numbered'
  BY <1>1 DEF FlushThen, StartPut, Continue, Ready, StartGet
<1>2. ASSUME NEW next \in {"done", "free"}, FlushThen(next, NoBlk, NoBlk)
      PROVE  Numbered'
  BY <1>2 DEF FlushThen, StartPut, Continue, Ready, StartGet
<1>3. CASE FLUSH \/ KeepFlush
  BY <1>2, <1>3 DEF FLUSH, KeepFlush
<1>4. CASE (\E n \in Blks : BLKfetch(n)) \/ (\E s, d \in Blks : COPY(s, d))
  BY <1>1, <1>4 DEF BLKfetch, COPY
<1>5. ASSUME MayTouch,
             \/ BLKstore \/ Reload \/ WIPE
             \/ \E s \in Sectors, v \in Vals : Edit(s, v)
      PROVE  Numbered'
  BY <1>5 DEF MayTouch, BLKstore, Reload, WIPE, Edit
<1>6. CASE PutReturns
  BY <1>6 DEF PutReturns, Continue, Ready, StartGet, Progress
<1>7. CASE GetReturns
  BY <1>7 DEF GetReturns, Ready, StartPut
<1>8. CASE PutSector \/ GetSector
  BY <1>8 DEF PutSector, CtlPut, GetSector, CtlGet
<1>9. CASE Abort
  BY <1>9 DEF Abort, CtlAbort, Ready
<1>10. CASE PowerCycle
  BY <1>10 DEF PowerCycle, CtlBoot, Ready
<1>11. CASE UNCHANGED vars
  BY <1>11 DEF vars, cvars
<1>12. QED
  BY <1>3, <1>4, <1>5, <1>6, <1>7, <1>8, <1>9, <1>10, <1>11
  DEF Next, Word, Returns

\* If no word touches the buffer while no block is active, the types, the
\* progress of each word and the number of the block it works on are known in
\* every state: the conjuncts of Inductive carry each other.
THEOREM Inductiveness ==
  ASSUME "noblk" \notin Outside PROVE Spec => []Inductive
<1>1. Init => Numbered
  BY DEF Init, CtlInit, Numbered
<1>2. TypeOK /\ Progress /\ Numbered /\ [Next]_vars => Numbered'
  BY NumberedStep
<1>3. QED
  BY <1>1, <1>2, ProgressHolds, PTL DEF Spec, Inductive

\* Block -1 is then never written ("-1 means invalid", blk.fs B230).
THEOREM InvalidSafe ==
  ASSUME "noblk" \notin Outside PROVE Spec => []InvalidNeverWritten
<1>1. Inductive => InvalidNeverWritten
  BY DEF Inductive, Numbered, InvalidNeverWritten
<1>2. QED
  BY <1>1, Inductiveness, PTL

-----------------------------------------------------------------------------
(* Unsaved changes, whatever the drivers do. *)

LEMMA PowerSteps ==
  /\ PowerInit => Init
  /\ [PowerNext]_pvars => [Next]_vars
  BY DEF PowerInit, PowerNext, Next, pvars

\* A word takes the dirty flag down only when the driver has returned, and then
\* the medium holds what the buffer holds; a save that fails half way leaves
\* the buffer dirty.
THEOREM SavedBeforeClean == PowerSpec => CleanMeansSaved
<1> DEFINE P == BLKDTY /\ ~BLKDTY' =>
                  disk'[BLKat] = buf \/ (pc = "get" /\ after = "reload") \/ cut'
<1>1. TypeOK /\ Progress /\ [PowerNext]_pvars => [P]_pvars
  <2> SUFFICES ASSUME TypeOK, Progress, PowerNext, BLKDTY, ~BLKDTY',
                      ~cut', ~(pc = "get" /\ after = "reload")
               PROVE  disk'[BLKat] = buf
    OBVIOUS
  <2>1. Word \/ PutSector \/ GetSector \/ Returns \/ Abort
    BY DEF PowerNext
  <2>2. (PutReturns \/ GetReturns) /\ UNCHANGED disk
    BY <2>1 DEF Word, FLUSH, KeepFlush, BLKfetch, COPY, FlushThen, BLKstore,
           Reload, WIPE, Edit, PutSector, CtlPut, GetSector, CtlGet, Returns,
           Abort, CtlAbort
  <2>3. QED
    BY <2>2, DriverDone DEF PutReturns, GetReturns
<1>2. PowerSpec => Spec
  BY PowerSteps, PTL DEF PowerSpec, Spec
<1>3. QED
  BY <1>1, <1>2, ProgressHolds, PTL DEF PowerSpec, CleanMeansSaved

\* Unsaved changes never become changes of another block.
THEOREM ChangesStayPut == Spec => DirtyKeepsBlock
<1> DEFINE P == BLKDTY /\ BLKDTY' => BLKat' = BLKat
<1>1. TypeOK /\ Progress /\ [Next]_vars => [P]_vars
  <2> SUFFICES ASSUME TypeOK, Progress, Next, BLKDTY, BLKDTY'
               PROVE  BLKat' = BLKat
    OBVIOUS
  <2>1. CASE GetReturns
    BY <2>1 DEF GetReturns, Progress
  <2>2. CASE ~GetReturns
    BY <2>2 DEF Next, Word, FLUSH, KeepFlush, BLKfetch, COPY, FlushThen, BLKstore,
           Reload, WIPE, Edit, PutSector, CtlPut, GetSector, CtlGet, Returns,
           PutReturns, Abort, CtlAbort, PowerCycle, CtlBoot
  <2>3. QED
    BY <2>1, <2>2
<1>2. QED
  BY <1>1, ProgressHolds, PTL DEF Spec, DirtyKeepsBlock

-----------------------------------------------------------------------------
(* The BLK subsystem implements BlockStore: as long as words leave an empty *)
(* buffer alone, every step of a word, of the driver or of a driver that    *)
(* gives up is one step of the store, or none.                              *)

\* What is known of every state the subsystem reaches.
Known == TypeOK /\ Progress /\ Coherent /\ Numbered

LEMMA KnownAlways == ASSUME "noblk" \notin Outside PROVE Spec => []Known
<1>2. Init => Coherent /\ Numbered
  BY DEF Init, CtlInit, Coherent, HoldsItsBlock, Numbered
<1>3. TypeOK /\ Progress /\ Coherent /\ [Next]_vars => Coherent'
  BY CoherentStep
<1>4. TypeOK /\ Progress /\ Numbered /\ [Next]_vars => Numbered'
  BY NumberedStep
<1>5. TypeOK /\ Progress /\ Coherent /\ Numbered => Known
  BY DEF Known
<1>6. QED
  BY <1>2, <1>3, <1>4, <1>5, ProgressHolds, PTL DEF Spec

-----------------------------------------------------------------------------
(* The refinement mapping. *)

\* Nothing to save: the user sees the medium.
LEMMA CleanView ==
  ASSUME TypeOK, ~(BLKDTY \/ pc = "put") \/ disk[BLKat] = buf
  PROVE  view = disk
  BY DEF TypeOK, CtlTypeOK, view

LEMMA SameView ==
  ASSUME UNCHANGED <<disk, buf, BLKat>>,
         (BLKDTY \/ pc = "put") <=> (BLKDTY \/ pc = "put")'
  PROVE  view' = view
  BY DEF view

\* A word's FLUSH, and what follows it, is a stutter or a change of block.
LEMMA FlushMaps ==
  ASSUME Known, NEW next, NEW n \in AllBlks, NEW d, FlushThen(next, n, d),
         UNCHANGED disk, TypeOK'
  PROVE  [Store!Next]_Store!svars
<1>1. CASE BLKDTY
  <2>1. pc' = "put" /\ UNCHANGED <<disk, buf, BLKat, BLKDTY>>
    BY <1>1 DEF FlushThen, StartPut
  <2>2. view' = view
    BY <1>1, <2>1, SameView
  <2>3. QED
    BY <2>1, <2>2 DEF Store!svars
<1>2. CASE ~BLKDTY
  <2>1. pc = "ready" /\ pc' # "put" /\ ~BLKDTY'
    BY <1>2 DEF FlushThen, Continue, Ready, StartGet
  <2>2. view = disk /\ view' = disk'
    BY <1>2, <2>1, CleanView DEF Known, TypeOK, CtlTypeOK, view
  <2>3. BLKat' \in Store!AllBlks
    BY DEF TypeOK, CtlTypeOK, AllBlks, Store!AllBlks, NoBlk, Store!NoBlk
  <2>4. Store!Select(BLKat')
    BY <2>2 DEF Store!Select
  <2>5. QED
    BY <2>3, <2>4 DEF Store!Next
<1>3. QED
  BY <1>1, <1>2

\* Changing the buffer is changing the active block.
LEMMA ModifyMaps ==
  ASSUME Known, TypeOK', BLKat # NoBlk, pc \in {"ready", "get"},
         BLKDTY' \/ pc' = "put", UNCHANGED <<disk, BLKat>>
  PROVE  Store!Next
<1>1. BLKat \in AllBlks /\ buf' \in Data
  BY DEF Known, TypeOK, CtlTypeOK
<1>2. \A n \in AllBlks : view[n] = IF n = BLKat /\ BLKDTY THEN buf ELSE disk[n]
  BY DEF Known, view
<1>3. view' = [view EXCEPT ![BLKat] = buf']
  BY <1>1, <1>2 DEF view
<1>4. Store!Modify
  BY <1>1, <1>3 DEF Store!Modify, Store!NoBlk, NoBlk, Data, Store!Data, Sectors, Store!Sectors
<1>5. QED
  BY <1>4 DEF Store!Next

\* A sector written is a sector saved.
LEMMA PutMaps ==
  ASSUME Known, PutSector PROVE Store!Next
<1>1. BLKat \in AllBlks /\ BLKat # NoBlk /\ sec \in Sectors
  BY DEF Known, Numbered, TypeOK, CtlTypeOK, PutSector, CtlPut
<1>2. view[BLKat] = buf
  BY <1>1 DEF view, PutSector, CtlPut
<1>3. disk' = [disk EXCEPT ![BLKat][sec] = view[BLKat][sec]]
  BY <1>2 DEF PutSector
<1>4. view' = view
  BY <1>1, <1>3 DEF Known, TypeOK, CtlTypeOK, view, PutSector, CtlPut
<1>5. Store!SaveSector(sec)
  BY <1>1, <1>3, <1>4 DEF Store!SaveSector, Store!NoBlk, NoBlk, PutSector, CtlPut
<1>6. QED
  BY <1>1, <1>5 DEF Store!Next, Sectors, Store!Sectors

\* A sector read over a clean buffer is not seen; read by VE's @ over a dirty
\* one, it is a sector reverted.
LEMMA GetMaps ==
  ASSUME Known, GetSector PROVE [Store!Next]_Store!svars
<1>1. /\ BLKat \in AllBlks /\ BLKat # NoBlk /\ sec \in Sectors
      /\ disk' = disk /\ BLKat' = BLKat /\ BLKDTY' = BLKDTY
      /\ pc = "get" /\ pc' = "get" /\ buf \in Data
      /\ buf' = [buf EXCEPT ![sec] = disk[BLKat][sec]]
  BY DEF Known, Numbered, TypeOK, CtlTypeOK, GetSector, CtlGet
<1>2. CASE ~BLKDTY
  <2>1. view' = view
    BY <1>1, <1>2 DEF view
  <2>2. QED
    BY <1>1, <2>1 DEF Store!svars
<1>3. CASE BLKDTY
  <2>1. view[BLKat] = buf
    BY <1>1, <1>3 DEF view
  <2>2. view' = [view EXCEPT ![BLKat] = buf']
    BY <1>1, <1>3 DEF view
  <2>3. view' = [view EXCEPT ![BLKat][sec] = disk[BLKat][sec]]
    BY <1>1, <2>1, <2>2
  <2>4. Store!RevertSector(sec)
    BY <1>1, <2>3 DEF Store!RevertSector, Store!NoBlk, NoBlk
  <2>5. QED
    BY <1>1, <2>4 DEF Store!Next, Sectors, Store!Sectors
<1>4. QED
  BY <1>2, <1>3

\* The driver returns: all is saved, and the word goes on or is over.
LEMMA ReturnMaps ==
  ASSUME Known, Returns, TypeOK' PROVE [Store!Next]_Store!svars
<1>1. disk[BLKat] = buf /\ disk' = disk /\ buf' = buf
  BY DriverDone DEF Known, Returns, PutReturns, GetReturns
<1>2. view = disk
  BY <1>1, CleanView DEF Known
<1>3. BLKat' \in Store!AllBlks
  BY DEF TypeOK, CtlTypeOK, AllBlks, Store!AllBlks, NoBlk, Store!NoBlk
<1>4. CASE PutReturns
  <2>1. ~BLKDTY' /\ pc' # "put"
    BY <1>4 DEF PutReturns, Continue, Ready, StartGet
  <2>2. view' = disk'
    BY <1>1, <2>1 DEF Known, TypeOK, CtlTypeOK, view
  <2>3. Store!Select(BLKat')
    BY <1>1, <1>2, <2>2 DEF Store!Select
  <2>4. QED
    BY <1>3, <2>3 DEF Store!Next
<1>5. CASE GetReturns /\ dst = NoBlk
  <2>1. BLKat' = BLKat
    BY <1>5 DEF GetReturns
  <2>2. view' = disk'
    BY <1>1, <2>1 DEF Known, TypeOK, CtlTypeOK, view
  <2>3. QED
    BY <1>1, <1>2, <2>1, <2>2 DEF Store!svars
<1>6. CASE GetReturns /\ dst # NoBlk
  <2>1. BLKat' = dst /\ pc' = "put" /\ dst \in Blks /\ BLKat # NoBlk /\ BLKat \in AllBlks
    BY <1>6 DEF GetReturns, StartPut, Known, Numbered, TypeOK, CtlTypeOK, AllBlks
  <2>2. view' = [view EXCEPT ![dst] = view[BLKat]]
    BY <1>1, <1>2, <2>1 DEF Known, TypeOK, CtlTypeOK, AllBlks, view
  <2>3. Store!CopyTo(dst)
    BY <1>1, <1>2, <2>1, <2>2 DEF Store!CopyTo, Store!NoBlk, NoBlk
  <2>4. QED
    BY <2>1, <2>3 DEF Store!Next
<1>7. QED
  BY <1>4, <1>5, <1>6 DEF Returns

\* A power cut: the medium is what is left.
LEMMA CrashMaps ==
  ASSUME Known, PowerCycle PROVE Store!Next
<1>1. BLKat' = NoBlk /\ ~BLKDTY' /\ pc' # "put" /\ disk' = disk
  BY DEF PowerCycle, CtlBoot, Ready
<1>2. view' = disk'
  BY <1>1 DEF Known, TypeOK, CtlTypeOK, view
<1>3. QED
  BY <1>1, <1>2 DEF Store!Next, Store!Crash, Store!NoBlk, NoBlk

\* A driver that gives up: a clean buffer is forgotten, a dirty one keeps its
\* changes but for the sector VE's @ was reading.
LEMMA AbortMaps ==
  ASSUME Known, Abort, TypeOK' PROVE [Store!Next]_Store!svars
<1>1. /\ BLKat \in AllBlks /\ BLKat # NoBlk
      /\ pc' = "ready" /\ UNCHANGED <<disk, BLKat, BLKDTY>>
  BY DEF Known, Numbered, TypeOK, CtlTypeOK, Abort, CtlAbort, Ready
<1>2. CASE BLKDTY /\ pc = "put"
  <2>1. view' = view
    BY <1>1, <1>2, SameView DEF Abort, CtlAbort
  <2>2. QED
    BY <1>1, <2>1 DEF Store!svars
<1>3. CASE BLKDTY /\ pc = "get"
  BY <1>1, <1>3, ModifyMaps
<1>4. CASE ~BLKDTY
  <2>1. view' = disk' /\ \A n \in AllBlks : n # BLKat => view[n] = disk[n]
    BY <1>1, <1>4 DEF Known, TypeOK, CtlTypeOK, view
  <2>2. view' = [view EXCEPT ![BLKat] = disk[BLKat]]
    BY <1>1, <2>1 DEF Known, TypeOK, CtlTypeOK, view
  <2>3. Store!Forget
    BY <1>1, <2>2 DEF Store!Forget, Store!NoBlk, NoBlk
  <2>4. QED
    BY <2>3 DEF Store!Next
<1>5. QED
  BY <1>2, <1>3, <1>4 DEF Known, TypeOK, CtlTypeOK, Abort, CtlAbort

-----------------------------------------------------------------------------
LEMMA InitMaps == Init => Store!Init
  BY DEF Init, CtlInit, view, Store!Init, Store!AllBlks, Store!NoBlk, Store!Data,
         Store!Sectors, AllBlks, NoBlk, Data, Sectors

LEMMA WordMaps ==
  ASSUME "noblk" \notin Outside, Known, Word, TypeOK' PROVE [Store!Next]_Store!svars
<1> USE DEF Word
<1> NoBlk \in AllBlks /\ Blks \subseteq AllBlks
  BY DEF AllBlks
<1>1. CASE FLUSH \/ KeepFlush
  BY <1>1, FlushMaps DEF FLUSH, KeepFlush
<1>2. CASE (\E n \in Blks : BLKfetch(n)) \/ (\E s, d \in Blks : COPY(s, d))
  BY <1>2, FlushMaps DEF BLKfetch, COPY
<1>3. CASE MayTouch /\ BLKstore
  <2>1. pc' = "put" /\ UNCHANGED <<disk, buf, BLKat>>
    BY <1>3 DEF BLKstore, StartPut
  <2>2. QED
    BY <1>3, <2>1, ModifyMaps DEF MayTouch, BLKstore
<1>4. CASE Reload
  <2>1. pc = "ready" /\ pc' = "get" /\ UNCHANGED <<disk, buf, BLKat, BLKDTY>>
    BY <1>4 DEF Reload, StartGet
  <2>2. QED
    BY <2>1, SameView DEF Store!svars
<1>5. CASE MayTouch /\ (WIPE \/ \E s \in Sectors, v \in Vals : Edit(s, v))
  BY <1>5, ModifyMaps DEF MayTouch, WIPE, Edit
<1>6. QED
  BY <1>1, <1>2, <1>3, <1>4, <1>5

\* As long as no word changes an empty buffer, the BLK subsystem is the store
\* doc/blk.txt describes, for any blocks and contents, whatever drivers do.
THEOREM Implements == ASSUME "noblk" \notin Outside PROVE Spec => StoreSpec
<1>1. Known /\ TypeOK' /\ [Next]_vars => [Store!Next]_Store!svars
  <2> SUFFICES ASSUME Known, TypeOK', [Next]_vars PROVE [Store!Next]_Store!svars
    OBVIOUS
  <2>1. CASE UNCHANGED vars
    BY <2>1 DEF vars, cvars, Store!svars, view
  <2>2. QED
    BY <2>1, WordMaps, AbortMaps, PutMaps, GetMaps, ReturnMaps, CrashMaps DEF Next
<1>2. Known /\ [Next]_vars => TypeOK'
  BY TypeStep DEF Known
<1>3. QED
  BY <1>1, <1>2, InitMaps, KnownAlways, PTL DEF Spec, StoreSpec, Store!Spec
=============================================================================
