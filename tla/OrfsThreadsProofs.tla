-------------------------- MODULE OrfsThreadsProofs --------------------------
(***************************************************************************)
(* Proofs about OrfsThreads.  storage.c keeps its promises to any number   *)
(* of threads as long as no two calls of storagePatchData overlap: the     *)
(* flash then goes through the steps of Orfs, whose invariant carries      *)
(* over.  That one thread does all the patching, as the event thread does  *)
(* until "power off" starts (or somebody runs the tests from the shell),   *)
(* is one way to ensure it; a lock would be another.                       *)
(***************************************************************************)
EXTENDS OrfsThreads, TLAPS

(* No two calls of storagePatchData overlap.                               *)
Serial ==
  \A t, u \in Thread : job[t].pc # "idle" /\ job[u].pc # "idle" => t = u

(* Only one thread ever patches.  The code does not see to it.             *)
SingleWriter == \E w \in Thread : \A t \in Thread \ {w} : MayPatch[t] = {}

(* The call in progress, as Orfs sees it.                                  *)
NoCall == [pc |-> "idle", block |-> 0, patch |-> [w \in {} |-> Blank],
           src |-> 0, dest |-> 0]
Call == IF \E t \in Thread : job[t].pc # "idle"
        THEN job[CHOOSE t \in Thread : job[t].pc # "idle"]
        ELSE NoCall

Alone == INSTANCE OrfsProofs WITH
  pc    <- IF halted THEN "halted" ELSE Call.pc,
  block <- Call.block,
  patch <- Call.patch,
  src   <- Call.src,
  dest  <- Call.dest

-----------------------------------------------------------------------------
(* The inductive invariant.                                                *)

CallPhase == {"idle", "erase", "header", "prefix", "patch", "tail"}
JobType  == [pc : CallPhase, block : Block, patch : Patch \cup {BlankData},
             src : Sector, dest : Sector]
HeldType == [block : Block \cup {NoBlock}, sector : Sector, data : Data,
             patches : 0 .. 2]

Types ==
  /\ job \in [Thread -> JobType]
  /\ held \in [Thread -> HeldType]
  /\ \A t \in Thread : held[t] # NotHeld => held[t].block \in Block

(* Blocks are allocated before the threads start, and a header is only     *)
(* written with a block number: without a power loss the search for an     *)
(* empty sector has nothing to stumble on.                                 *)
FlashInv ==
  /\ \A b \in Block : Allocated(sector, b)
  /\ \A s \in Sector : sector[s].sig => sector[s].block \in Block

(* A pointer shows the newest copy until a patch of any block begins.  That *)
(* patch is not written where the pointer points to, even if it replaces   *)
(* the copy; the next one may be.                                          *)
PointerInv ==
  \A t \in Thread :
    LET h == held[t]
    IN  h # NotHeld =>
          /\ h.patches <= 1 => sector[h.sector].data = h.data
          /\ h.patches = 0 => /\ IsNewest(sector, h.block, h.sector)
                              /\ Call.pc # "idle" => Call.block # h.block
          /\ h.patches = 1 /\ Call.pc # "idle" => h.sector # Call.dest

TInv == Types /\ Alone!IInv /\ FlashInv /\ PointerInv

-----------------------------------------------------------------------------
(* The format of the flash is the same in both modules.                    *)

LEMMA SameSets ==
  /\ Alone!Sector = Sector /\ Alone!Block = Block /\ Alone!Word = Word
  /\ Alone!NoBlock = NoBlock /\ Alone!SECTOR_INVALID = SECTOR_INVALID
  /\ Alone!JOURNAL_INVALID = JOURNAL_INVALID
  /\ Alone!Data = Data /\ Alone!Image = Image /\ Alone!Patch = Patch
  /\ Alone!BlankData = BlankData /\ Alone!Erased = Erased
BY DEF Alone!Sector, Alone!Block, Alone!Word, Alone!NoBlock, Alone!SECTOR_INVALID,
       Alone!JOURNAL_INVALID, Alone!Data, Alone!Image, Alone!Patch, Alone!BlankData,
       Alone!Erased, Alone!BLOCK_TOTAL, Alone!WordRange, Sector, Block, Word, NoBlock,
       SECTOR_INVALID, JOURNAL_INVALID, Data, Image, Patch, BlankData, Erased,
       BLOCK_TOTAL, WordRange

LEMMA SameOperations ==
  /\ \A f, s : Alone!EraseSector(f, s) = EraseSector(f, s)
  /\ \A f, s, b, r : Alone!ProgramHeader(f, s, b, r) = ProgramHeader(f, s, b, r)
  /\ \A f, s, W, d : Alone!ProgramWords(f, s, W, d) = ProgramWords(f, s, W, d)
  /\ \A f, s : Alone!HeaderErased(f, s) <=> HeaderErased(f, s)
  /\ \A f, s, W : Alone!WordsErased(f, s, W) <=> WordsErased(f, s, W)
BY SameSets DEF Alone!EraseSector, Alone!ProgramHeader, Alone!ProgramWords,
       Alone!HeaderErased, Alone!WordsErased, EraseSector, ProgramHeader, ProgramWords,
       HeaderErased, WordsErased

LEMMA SameScans ==
  /\ \A f, b : Alone!Copies(f, b) = Copies(f, b)
  /\ \A f, b : Alone!Allocated(f, b) <=> Allocated(f, b)
  /\ \A f, b, s : Alone!IsNewest(f, b, s) <=> IsNewest(f, b, s)
  /\ \A f, b : Alone!Newest(f, b) = Newest(f, b)
  /\ \A f : Alone!find_empty_sector(f) = find_empty_sector(f)
  /\ \A f : Alone!ScanOutOfBounds(f) <=> ScanOutOfBounds(f)
<1>1. \A f, b : Alone!Copies(f, b) = Copies(f, b)
  BY SameSets DEF Alone!Copies, Copies
<1>2. \A f, b : Alone!Allocated(f, b) <=> Allocated(f, b)
  BY <1>1 DEF Alone!Allocated, Allocated
<1>3. \A f, b, s : Alone!IsNewest(f, b, s) <=> IsNewest(f, b, s)
  BY <1>1 DEF Alone!IsNewest, IsNewest
<1>4. \A f, b : Alone!Newest(f, b) = Newest(f, b)
  BY SameSets, <1>3 DEF Alone!Newest, Newest
<1>5. \A f : Alone!find_empty_sector(f) = find_empty_sector(f)
  BY DEF Alone!find_empty_sector, find_empty_sector, Alone!FirstStop, FirstStop,
         Alone!IsFirstStop, IsFirstStop, Alone!StopsAt, StopsAt, Alone!Sector, Sector,
         Alone!SECTOR_INVALID, SECTOR_INVALID
<1>6. \A f : Alone!ScanOutOfBounds(f) <=> ScanOutOfBounds(f)
  BY DEF Alone!ScanOutOfBounds, ScanOutOfBounds, Alone!StopsAt, StopsAt, Alone!Sector,
         Sector, Alone!NoBlock, NoBlock, Alone!BLOCK_TOTAL, BLOCK_TOTAL
<1>. QED BY <1>1, <1>2, <1>3, <1>4, <1>5, <1>6

-----------------------------------------------------------------------------
(* The call in progress.                                                   *)

LEMMA CallIs ==
  ASSUME Serial, NEW t \in Thread, job[t].pc # "idle"
  PROVE  Call = job[t]
<1>1. (CHOOSE u \in Thread : job[u].pc # "idle") = t
  BY DEF Serial
<1>. QED BY <1>1 DEF Call

LEMMA NoCallIs ==
  ASSUME \A t \in Thread : job[t].pc = "idle"
  PROVE  Call = NoCall
BY DEF Call

(* What the invariant of Orfs says of the call in progress.                *)
LEMMA AloneFacts ==
  ASSUME TInv
  PROVE  /\ sector \in Image
         /\ ~halted
         /\ Call.src \in Sector /\ Call.dest \in Sector /\ Call.block \in Block
         /\ Call.pc # "idle" => Call.src # Call.dest
         /\ \A b \in Block : \A s, t \in Copies(sector, b) :
              sector[s].rev = sector[t].rev => s = t
<1>1. Alone!TypeOK /\ Alone!PhaseInv /\ Alone!RevisionsDistinct
      /\ Alone!NoAssertionFails
  BY DEF TInv, Alone!IInv
<1>2. /\ sector \in Image
      /\ Call.src \in Sector /\ Call.dest \in Sector /\ Call.block \in Block
  BY <1>1, SameSets DEF Alone!TypeOK
<1>3. ~halted
  BY <1>1 DEF Alone!NoAssertionFails
<1>4. \A b \in Block : \A s, t \in Copies(sector, b) :
        sector[s].rev = sector[t].rev => s = t
  BY <1>1, SameSets, SameScans DEF Alone!RevisionsDistinct
<1>5. ASSUME Call.pc # "idle"
      PROVE  Call.src # Call.dest
  <2>1. Call.pc \in CallPhase
    BY DEF TInv, Types, Call, NoCall, CallPhase, JobType
  <2>2. Alone!Allocated(sector, Call.block)
    BY <1>2, SameScans DEF TInv, FlashInv
  <2>3. CASE Call.pc \in {"erase", "header"}
    BY <1>1, <1>3, <2>2, <2>3 DEF Alone!PhaseInv, Alone!Fresh
  <2>4. CASE Call.pc \in {"prefix", "patch", "tail"}
    BY <1>1, <1>3, <2>4 DEF Alone!PhaseInv
  <2>. QED BY <1>5, <2>1, <2>3, <2>4 DEF CallPhase
<1>. QED BY <1>2, <1>3, <1>4, <1>5

(* The search for an empty sector succeeds, and finds none that a reader   *)
(* may be using as the newest copy of a block.                             *)
LEMMA SearchFacts ==
  ASSUME TInv
  PROVE  /\ ~ScanOutOfBounds(sector)
         /\ find_empty_sector(sector) \in Sector
         /\ find_empty_sector(sector) # SECTOR_INVALID
         /\ \A b \in Block : ~IsNewest(sector, b, find_empty_sector(sector))
<1>1. ~ScanOutOfBounds(sector)
  BY FormatAssumption DEF TInv, FlashInv, ScanOutOfBounds, NoBlock, Block, BLOCK_TOTAL
<1>2. /\ sector \in Alone!Image
      /\ ~Alone!ScanOutOfBounds(sector)
      /\ \A b \in Alone!Block : \A s, t \in Alone!Copies(sector, b) :
           sector[s].rev = sector[t].rev => s = t
  BY <1>1, AloneFacts, SameSets, SameScans
<1>3. /\ Alone!find_empty_sector(sector) \in Alone!Sector
      /\ Alone!find_empty_sector(sector) # Alone!SECTOR_INVALID
      /\ \A b \in Alone!Block :
           ~Alone!IsNewest(sector, b, Alone!find_empty_sector(sector))
  BY <1>2, Alone!EmptySectorIsExpendable, FormatAssumption
<1>. QED BY <1>1, <1>3, SameSets, SameScans

LEMMA NewestIs ==
  ASSUME NEW f \in Image, NEW b \in Block, Allocated(f, b)
  PROVE  IsNewest(f, b, Newest(f, b)) /\ Newest(f, b) \in Sector
<1>1. Alone!IsNewest(f, b, Alone!Newest(f, b))
  BY SameSets, SameScans, Alone!NewestExists, FormatAssumption
<1>2. IsNewest(f, b, Newest(f, b))
  BY <1>1, SameScans
<1>. QED BY <1>2 DEF IsNewest, Copies

-----------------------------------------------------------------------------
(* Every step of a thread is a step of Orfs or leaves the file system      *)
(* alone.                                                                  *)

(* The beginning of a call: every block has a copy, so the patch goes into *)
(* another one.                                                            *)
LEMMA BeginStep ==
  ASSUME TInv, Serial', NEW t \in Thread, NEW b \in Block, NEW p \in Patch,
         BeginPatch(t, b, p)
  PROVE  /\ Call = NoCall
         /\ Call' = [pc |-> "erase", block |-> b, patch |-> p,
                     src |-> Newest(sector, b), dest |-> find_empty_sector(sector)]
         /\ job' = [job EXCEPT ![t] = Call']
         /\ held' = [u \in Thread |-> Aged(held[u])]
         /\ UNCHANGED <<sector, halted>>
         /\ Alone!Next
<1>1. /\ ~halted /\ job[t].pc = "idle"
      /\ ~WordsErased(sector, Newest(sector, b), DOMAIN p)
      /\ sector[Newest(sector, b)].rev # 0
      /\ job' = [job EXCEPT ![t] =
           [pc |-> "erase", block |-> b, patch |-> p,
            src |-> Newest(sector, b), dest |-> find_empty_sector(sector)]]
      /\ held' = [u \in Thread |-> Aged(held[u])]
      /\ UNCHANGED <<sector, halted>>
  BY SearchFacts DEF BeginPatch
<1>2. job \in [Thread -> JobType]
  BY DEF TInv, Types
<1>3. /\ job'[t] = [pc |-> "erase", block |-> b, patch |-> p,
                    src |-> Newest(sector, b), dest |-> find_empty_sector(sector)]
      /\ \A u \in Thread \ {t} : job'[u] = job[u]
  BY <1>1, <1>2
<1>4. Call' = job'[t]
  <2>1. job'[t].pc # "idle"
    BY <1>3
  <2>2. (CHOOSE u \in Thread : job'[u].pc # "idle") = t
    BY <2>1 DEF Serial
  <2>. QED BY <2>1, <2>2 DEF Call
<1>5. Call = NoCall
  <2>1. \A u \in Thread \ {t} : job'[u].pc = "idle"
    BY <1>3 DEF Serial
  <2>2. \A u \in Thread : job[u].pc = "idle"
    BY <1>1, <1>3, <2>1
  <2>. QED BY <2>2, NoCallIs
<1>6. Alone!PatchIntoCopy(b, p)
  <2>1. Alone!Allocated(sector, b)
    BY SameScans DEF TInv, FlashInv
  <2>2. /\ ~Alone!WordsErased(sector, Alone!Newest(sector, b), DOMAIN p)
        /\ sector[Alone!Newest(sector, b)].rev # 0
    BY <1>1, SameOperations, SameScans
  <2>3. /\ ~Alone!ScanOutOfBounds(sector)
        /\ Alone!find_empty_sector(sector) # Alone!SECTOR_INVALID
    BY SearchFacts, SameSets, SameScans
  <2>4. Alone!TakeEmptySector(b, p, Alone!Newest(sector, b))
    BY <1>1, <1>3, <1>4, <2>3, SameScans DEF Alone!TakeEmptySector
  <2>. QED BY <1>1, <2>1, <2>2, <2>4 DEF Alone!PatchIntoCopy
<1>7. Alone!Next
  <2>1. Alone!storagePatchData(b, p)
    BY <1>1, <1>5, <1>6 DEF Alone!storagePatchData, NoCall
  <2>. QED BY <2>1, SameSets DEF Alone!Next
<1>. QED BY <1>1, <1>3, <1>4, <1>5, <1>7
(* A flash operation of the call in progress.                              *)
LEMMA OperationStep ==
  ASSUME TInv, Serial, NEW t \in Thread, job[t].pc # "idle",
         NEW f, NEW next, Operation(t, f, next)
  PROVE  /\ Call = job[t]
         /\ sector' = f /\ UNCHANGED <<held, halted>>
         /\ next = "idle" => Call' = NoCall
         /\ next # "idle" => Call' = [Call EXCEPT !.pc = next]
<1>1. Call = job[t]
  BY CallIs
<1>2. job \in [Thread -> JobType]
  BY DEF TInv, Types
<1>3. /\ sector' = f /\ UNCHANGED <<held, halted>>
      /\ job' = [job EXCEPT ![t] =
           IF next = "idle" THEN Idle ELSE [@ EXCEPT !.pc = next]]
  BY DEF Operation
<1>4. /\ job'[t] = IF next = "idle" THEN Idle ELSE [job[t] EXCEPT !.pc = next]
      /\ \A u \in Thread \ {t} : job'[u].pc = "idle"
  BY <1>2, <1>3 DEF Serial
<1>5. CASE next = "idle"
  <2>1. \A u \in Thread : job'[u].pc = "idle"
    BY <1>4, <1>5 DEF Idle
  <2>. QED BY <1>1, <1>3, <1>5, <2>1 DEF Call
<1>6. CASE next # "idle"
  <2>1. job[t] \in JobType
    BY <1>2
  <2>2. job'[t] = [job[t] EXCEPT !.pc = next]
    BY <1>4, <1>6
  <2>3. job'[t].pc # "idle"
    BY <1>6, <2>1, <2>2 DEF JobType
  <2>4. (CHOOSE u \in Thread : job'[u].pc # "idle") = t
    BY <1>4, <2>3
  <2>5. Call' = job'[t]
    BY <2>3, <2>4 DEF Call
  <2>. QED BY <1>1, <1>3, <1>6, <2>2, <2>5
<1>. QED BY <1>5, <1>6

LEMMA EraseStep ==
  ASSUME TInv, Serial, NEW t \in Thread, Erase(t)
  PROVE  Call = job[t] /\ Alone!Erase
<1>1. /\ ~halted /\ job[t].pc = "erase"
      /\ Operation(t, EraseSector(sector, job[t].dest), "header")
  BY DEF Erase
<1>2. /\ Call = job[t]
      /\ sector' = EraseSector(sector, Call.dest) /\ ~halted'
      /\ Call' = [Call EXCEPT !.pc = "header"]
  BY <1>1, OperationStep
<1>3. Call \in JobType
  BY <1>2 DEF TInv, Types
<1>4. /\ Call.pc = "erase" /\ Call'.pc = "header"
      /\ Call'.block = Call.block /\ Call'.patch = Call.patch
      /\ Call'.src = Call.src /\ Call'.dest = Call.dest
  BY <1>1, <1>2, <1>3 DEF JobType
<1>. QED BY <1>1, <1>2, <1>4, SameOperations DEF Alone!Erase

(* A thread that halts the system leaves everything else as it is.         *)
LEMMA HaltStep ==
  ASSUME TInv, Serial, NEW t \in Thread, job[t].pc # "idle",
         halted' = TRUE, UNCHANGED <<sector, job, held>>
  PROVE  Call' = Call
BY DEF Call

LEMMA WriteHeaderStep ==
  ASSUME TInv, Serial, NEW t \in Thread, WriteHeader(t)
  PROVE  Call = job[t] /\ Alone!WriteHeader
<1>1. ~halted /\ job[t].pc = "header"
  BY DEF WriteHeader
<1>2. Call = job[t]
  BY <1>1, CallIs
<1>3. Call.src # Call.dest /\ Call \in JobType
  BY <1>1, <1>2, AloneFacts DEF TInv, Types
<1>4. Alone!NewRevision = sector[Call.src].rev - 1 /\ ~Alone!Fresh
  BY <1>3 DEF Alone!NewRevision, Alone!Fresh
<1>5. CASE HeaderErased(sector, Call.dest)
  <2>1. Operation(t, ProgramHeader(sector, Call.dest, Call.block,
                                   sector[Call.src].rev - 1), "prefix")
    BY <1>2, <1>5 DEF WriteHeader, Assertion
  <2>2. /\ sector' = ProgramHeader(sector, Call.dest, Call.block,
                                   sector[Call.src].rev - 1)
        /\ ~halted'
        /\ Call' = [Call EXCEPT !.pc = "prefix"]
    BY <1>1, <2>1, OperationStep
  <2>3. /\ Call'.pc = "prefix" /\ Call'.block = Call.block
        /\ Call'.patch = Call.patch
        /\ Call'.src = Call.src /\ Call'.dest = Call.dest
    BY <1>3, <2>2 DEF JobType
  <2>. QED BY <1>1, <1>2, <1>4, <1>5, <2>2, <2>3, SameOperations DEF Alone!WriteHeader
<1>6. CASE ~HeaderErased(sector, Call.dest)
  <2>1. halted' = TRUE /\ UNCHANGED <<sector, job, held>>
    BY <1>2, <1>6 DEF WriteHeader, Assertion
  <2>2. Call' = Call
    BY <1>1, <2>1, HaltStep
  <2>. QED BY <1>1, <1>2, <1>6, <2>1, <2>2, SameOperations DEF Alone!WriteHeader
<1>. QED BY <1>5, <1>6

(* One of the three programming phases.                                    *)
LEMMA PhaseStep ==
  ASSUME TInv, Serial, NEW t \in Thread, NEW phase \in {"prefix", "patch", "tail"},
         NEW W, NEW d, NEW next, ProgramPhase(t, phase, W, d, next)
  PROVE  /\ Call = job[t] /\ Call.pc = phase /\ ~halted
         /\ \/ /\ Alone!Program(W, d) /\ ~halted'
               /\ next = "idle" => Call' = NoCall
               /\ next # "idle" => /\ Call'.pc = next
                                   /\ Call'.block = Call.block
                                   /\ Call'.patch = Call.patch
                                   /\ Call'.src = Call.src
                                   /\ Call'.dest = Call.dest
            \/ Alone!ProgramFails(W)
<1>1. ~halted /\ job[t].pc = phase
  BY DEF ProgramPhase
<1>2. Call = job[t] /\ Call \in JobType
  BY <1>1, CallIs DEF TInv, Types
<1>3. CASE WordsErased(sector, Call.dest, W)
  <2>1. Operation(t, ProgramWords(sector, Call.dest, W, d), next)
    BY <1>2, <1>3 DEF ProgramPhase, Assertion
  <2>2. /\ sector' = ProgramWords(sector, Call.dest, W, d) /\ ~halted'
        /\ next = "idle" => Call' = NoCall
        /\ next # "idle" => Call' = [Call EXCEPT !.pc = next]
    BY <1>1, <2>1, OperationStep
  <2>3. Alone!Program(W, d)
    BY <1>3, <2>2, SameOperations DEF Alone!Program
  <2>. QED BY <1>1, <1>2, <2>2, <2>3 DEF JobType
<1>4. CASE ~WordsErased(sector, Call.dest, W)
  <2>1. halted' = TRUE /\ UNCHANGED <<sector, job, held>>
    BY <1>2, <1>4 DEF ProgramPhase, Assertion
  <2>2. Call' = Call
    BY <1>1, <2>1, HaltStep
  <2>3. Alone!ProgramFails(W)
    BY <1>4, <2>1, <2>2, SameOperations DEF Alone!ProgramFails
  <2>. QED BY <1>1, <1>2, <2>3
<1>. QED BY <1>3, <1>4

LEMMA ProgramDataStep ==
  ASSUME TInv, Serial, NEW t \in Thread, ProgramData(t)
  PROVE  /\ Call = job[t]
         /\ Alone!CopyPrefix \/ Alone!ProgramPatch \/ Alone!CopyTail
<1>. DEFINE old == sector[job[t].src].data
<1>1. CASE ProgramPhase(t, "prefix", Before(job[t].patch), old, "patch")
  <2>1. Before(job[t].patch) = Alone!Before /\ old = sector[Call.src].data
    BY <1>1, PhaseStep, SameSets DEF Before, Alone!Before
  <2>. QED BY <1>1, <2>1, PhaseStep DEF Alone!CopyPrefix
<1>2. CASE ProgramPhase(t, "patch", DOMAIN job[t].patch, job[t].patch, "tail")
  <2>1. job[t].patch = Call.patch
    BY <1>2, PhaseStep
  <2>. QED BY <1>2, <2>1, PhaseStep DEF Alone!ProgramPatch
<1>3. CASE ProgramPhase(t, "tail", After(job[t].patch), old, "idle")
  <2>1. After(job[t].patch) = Alone!After /\ old = sector[Call.src].data
    BY <1>3, PhaseStep, SameSets DEF After, Alone!After
  <2>. QED BY <1>3, <2>1, PhaseStep
           DEF Alone!CopyTail, Alone!Return, Alone!Forget, Alone!NoPatch, NoCall
<1>. QED BY <1>1, <1>2, <1>3 DEF ProgramData
(* What a thread does to pointers alone is not seen by the file system.    *)
LEMMA ReaderStep ==
  ASSUME UNCHANGED <<sector, job, halted>>
  PROVE  Call' = Call /\ UNCHANGED Alone!vars
<1>1. Call' = Call
  BY DEF Call
<1>. QED BY <1>1 DEF Alone!vars

LEMMA StepIsOrfsStep ==
  ASSUME TInv, Serial, Serial', [Next]_vars
  PROVE  [Alone!Next]_(Alone!vars)
<1>1. ASSUME NEW t \in Thread, NEW b \in Block, NEW p \in Patch, BeginPatch(t, b, p)
      PROVE  Alone!Next
  BY <1>1, BeginStep
<1>2. ASSUME NEW t \in Thread, Erase(t) \/ WriteHeader(t) \/ ProgramData(t)
      PROVE  Alone!Next
  BY <1>2, EraseStep, WriteHeaderStep, ProgramDataStep DEF Alone!Next
<1>3. CASE \/ \E t \in Thread : Release(t) \/ \E b \in Block : Read(t, b)
           \/ UNCHANGED vars
  BY <1>3, ReaderStep DEF Release, Read, vars
<1>. QED BY <1>1, <1>2, <1>3 DEF Next

(* All that a step writes to the flash, and in which call.                 *)
LEMMA WriteStep ==
  ASSUME TInv, Serial, NEW t \in Thread, Erase(t) \/ WriteHeader(t) \/ ProgramData(t)
  PROVE  /\ held' = held
         /\ Call = job[t] /\ Call.pc # "idle"
         /\ Call'.pc # "idle" => Call'.block = Call.block /\ Call'.dest = Call.dest
         /\ \/ sector' = sector
            \/ Call.pc = "erase" /\ sector' = EraseSector(sector, Call.dest)
            \/ /\ Call.pc = "header"
               /\ sector' = ProgramHeader(sector, Call.dest, Call.block,
                                          Alone!NewRevision)
            \/ /\ Call.pc \in {"prefix", "patch", "tail"}
               /\ \E W, d : /\ \A w \in W \cap Word : d[w] \in Value
                            /\ sector' = ProgramWords(sector, Call.dest, W, d)
<1>1. held' = held
  BY DEF Erase, WriteHeader, ProgramData, ProgramPhase, Assertion, Operation
<1>2. CASE Erase(t)
  BY <1>1, <1>2, EraseStep, SameOperations, AloneFacts DEF Alone!Erase
<1>3. CASE WriteHeader(t)
  BY <1>1, <1>3, WriteHeaderStep, SameOperations, AloneFacts DEF Alone!WriteHeader
<1>4. CASE ProgramData(t)
  <2>1. Call = job[t] /\ (Alone!CopyPrefix \/ Alone!ProgramPatch \/ Alone!CopyTail)
    BY <1>4, ProgramDataStep
  <2>2. /\ \A w \in Alone!Before \cap Word : sector[Call.src].data[w] \in Value
        /\ \A w \in Alone!After \cap Word : sector[Call.src].data[w] \in Value
        /\ \A w \in DOMAIN Call.patch \cap Word : Call.patch[w] \in Value
    BY Alone!DataFacts, FormatAssumption, SameSets DEF TInv
  <2>3. /\ Call.pc \in {"prefix", "patch", "tail"}
        /\ Call'.pc # "idle" => Call'.block = Call.block /\ Call'.dest = Call.dest
    BY <2>1, AloneFacts DEF Alone!CopyPrefix, Alone!ProgramPatch, Alone!CopyTail,
         Alone!ProgramFails, Alone!Return
  <2>4. \/ sector' = sector
        \/ \E W, d : /\ \A w \in W \cap Word : d[w] \in Value
                     /\ sector' = ProgramWords(sector, Call.dest, W, d)
    BY <2>1, <2>2, SameOperations DEF Alone!CopyPrefix, Alone!ProgramPatch,
         Alone!CopyTail, Alone!ProgramFails, Alone!Program
  <2>. QED BY <1>1, <2>1, <2>3, <2>4
<1>. QED BY <1>2, <1>3, <1>4

-----------------------------------------------------------------------------
(* What a write of the call in progress leaves alone.                      *)

(* The sector being written is no other block's newest copy.               *)
LEMMA DestIsNotTheirs ==
  ASSUME TInv, Call.pc # "idle", NEW b \in Block, b # Call.block
  PROVE  ~IsNewest(sector, b, Call.dest)
<1>1. /\ Alone!PhaseInv /\ Alone!EraseIsSafe /\ ~halted
      /\ Call.pc \in CallPhase
  BY AloneFacts DEF TInv, Alone!IInv, Types, Call, NoCall, CallPhase, JobType
<1>2. CASE Call.pc = "erase"
  BY <1>1, <1>2, SameSets, SameScans DEF Alone!EraseIsSafe
<1>3. CASE Call.pc = "header"
  <2>1. sector[Call.dest] = Erased
    BY <1>1, <1>3, SameSets DEF Alone!PhaseInv
  <2>. QED BY <2>1 DEF Erased, IsNewest, Copies
<1>4. CASE Call.pc \in {"prefix", "patch", "tail"}
  <2>1. IsNewest(sector, Call.block, Call.dest)
    BY <1>1, <1>4, SameScans DEF Alone!PhaseInv
  <2>. QED BY <2>1 DEF IsNewest, Copies
<1>. QED BY <1>1, <1>2, <1>3, <1>4 DEF CallPhase

LEMMA WriteFacts ==
  ASSUME TInv, Serial, NEW t \in Thread, Erase(t) \/ WriteHeader(t) \/ ProgramData(t)
  PROVE  /\ \A s \in Sector : s # Call.dest => sector'[s] = sector[s]
         /\ \A s \in Sector : sector'[s].sig => sector'[s].block \in Block
         /\ \A b \in Block : \A n : IsNewest(sector, b, n) /\ b # Call.block =>
              n # Call.dest /\ IsNewest(sector', b, n)
<1>1. /\ Call.pc # "idle" /\ sector \in Image
      /\ Call.dest \in Sector /\ Call.block \in Block
  BY WriteStep, AloneFacts
<1>2. /\ \A s \in Sector : sector[s].sig => sector[s].block \in Block
      /\ Alone!IInv /\ ~halted
  BY AloneFacts DEF TInv, FlashInv
<1>3. \A b \in Block : \A n : IsNewest(sector, b, n) /\ b # Call.block =>
        n # Call.dest /\ n \in Sector
  BY <1>1, DestIsNotTheirs DEF IsNewest, Copies
<1>4. CASE sector' = sector
  BY <1>2, <1>3, <1>4
<1>5. CASE Call.pc = "erase" /\ sector' = EraseSector(sector, Call.dest)
  <2>1. /\ sector'[Call.dest] = Erased
        /\ \A s \in Sector : s # Call.dest => sector'[s] = sector[s]
        /\ \A b \in Block, n \in Sector :
             IsNewest(sector, b, n) => IsNewest(sector', b, n)
    BY <1>2, <1>5, Alone!EraseFacts, FormatAssumption, SameSets, SameOperations, SameScans
  <2>. QED BY <1>2, <1>3, <2>1 DEF Erased
<1>6. CASE /\ Call.pc = "header"
           /\ sector' = ProgramHeader(sector, Call.dest, Call.block,
                                      Alone!NewRevision)
  <2>1. /\ \A s \in Sector : s # Call.dest => sector'[s] = sector[s]
        /\ \A b \in Block : b # Call.block => Copies(sector', b) = Copies(sector, b)
    BY <1>2, <1>6, Alone!HeaderFacts, FormatAssumption, SameSets, SameOperations, SameScans
  <2>2. sector'[Call.dest].block = Call.block
    BY <1>1, <1>6 DEF ProgramHeader, Image
  <2>3. ASSUME NEW b \in Block, NEW n, IsNewest(sector, b, n), b # Call.block
        PROVE  IsNewest(sector', b, n)
    <3>1. \A s \in Copies(sector, b) : s \in Sector /\ s # Call.dest
      <4>1. ~sector[Call.dest].sig
        BY <1>2, <1>6, SameSets DEF Alone!IInv, Alone!PhaseInv, Erased
      <4>. QED BY <4>1 DEF Copies
    <3>. QED BY <2>1, <2>3, <3>1 DEF IsNewest
  <2>. QED BY <1>1, <1>2, <1>3, <2>1, <2>2, <2>3
<1>7. CASE \E W, d : /\ \A w \in W \cap Word : d[w] \in Value
                    /\ sector' = ProgramWords(sector, Call.dest, W, d)
  <2>1. PICK W, d : /\ \A w \in W \cap Word : d[w] \in Value
                    /\ sector' = ProgramWords(sector, Call.dest, W, d)
    BY <1>7
  <2>2. /\ \A s \in Sector : s # Call.dest => sector'[s] = sector[s]
        /\ \A s \in Sector : sector'[s].sig = sector[s].sig
                            /\ sector'[s].block = sector[s].block
        /\ \A b, n : IsNewest(sector', b, n) <=> IsNewest(sector, b, n)
    <3>1. /\ sector \in Alone!Image /\ Call.dest \in Alone!Sector
          /\ \A w \in W \cap Alone!Word : d[w] \in Value
      BY <1>1, <2>1, SameSets
    <3>. QED BY <2>1, <3>1, Alone!WordsKeepHeaders, FormatAssumption, SameSets,
                SameOperations, SameScans
  <2>. QED BY <1>2, <1>3, <2>2
<1>. QED BY <1>4, <1>5, <1>6, <1>7, WriteStep

-----------------------------------------------------------------------------
(* The invariant is kept while calls do not overlap.                       *)

LEMMA NotHeldType == NotHeld \in HeldType /\ Idle \in JobType
<1>1. 0 \in Block /\ 0 \in Sector /\ BlankData \in Data
  BY FormatAssumption DEF Block, BLOCK_TOTAL, Sector, BlankData, Data
<1>. QED BY <1>1 DEF NotHeld, HeldType, Idle, JobType, CallPhase

(* What the completed patches have made of a block is data.                *)
LEMMA CommittedType ==
  ASSUME TInv, NEW b \in Block
  PROVE  Committed(b) \in Data
<1>1. sector \in Image /\ job \in [Thread -> JobType]
  BY AloneFacts DEF TInv, Types
<1>2. CASE \E u \in Thread : Copying(job[u], b)
  <2>1. PICK u \in Thread : Committed(b) = sector[job[u].src].data
    BY <1>2 DEF Committed
  <2>2. job[u].src \in Sector
    BY <1>1 DEF JobType
  <2>. QED BY <1>1, <2>1, <2>2 DEF Image
<1>3. CASE ~\E u \in Thread : Copying(job[u], b)
  <2>1. Allocated(sector, b)
    BY DEF TInv, FlashInv
  <2>2. Committed(b) = sector[Newest(sector, b)].data /\ Newest(sector, b) \in Sector
    BY <1>1, <1>3, <2>1, NewestIs DEF Committed, Content
  <2>. QED BY <1>1, <2>2 DEF Image
<1>. QED BY <1>2, <1>3

(* The record of a pointer that a thread gets.                             *)
Got(b) == [block |-> b, sector |-> Newest(sector, b), data |-> Committed(b),
           patches |-> IF \E u \in Thread : job[u].pc # "idle" /\ job[u].block = b
                       THEN 2 ELSE 0]

LEMMA TypesKept ==
  ASSUME TInv, Serial, Serial', [Next]_vars
  PROVE  Types'
<1>1. /\ job \in [Thread -> JobType] /\ held \in [Thread -> HeldType]
      /\ \A t \in Thread : held[t] # NotHeld => held[t].block \in Block
  BY DEF TInv, Types
<1>2. \A b \in Block : Newest(sector, b) \in Sector
  BY AloneFacts, NewestIs DEF TInv, FlashInv
<1>3. ASSUME NEW t \in Thread, NEW b \in Block, NEW p \in Patch, BeginPatch(t, b, p)
      PROVE  Types'
  <2>1. /\ Call' = [pc |-> "erase", block |-> b, patch |-> p,
                    src |-> Newest(sector, b), dest |-> find_empty_sector(sector)]
        /\ job' = [job EXCEPT ![t] = Call']
        /\ held' = [u \in Thread |-> Aged(held[u])]
    BY <1>3, BeginStep
  <2>2. Call' \in JobType
    BY <1>2, <2>1, SearchFacts DEF JobType, CallPhase
  <2>3. ASSUME NEW u \in Thread
        PROVE  /\ Aged(held[u]) \in HeldType
               /\ Aged(held[u]).block = held[u].block
               /\ Aged(held[u]) # NotHeld => held[u] # NotHeld
    <3>1. held[u] \in HeldType
      BY <1>1
    <3>. QED BY <3>1 DEF Aged, HeldType
  <2>4. job' \in [Thread -> JobType]
    BY <1>1, <2>1, <2>2
  <2>5. held' \in [Thread -> HeldType]
    BY <2>1, <2>3
  <2>. QED BY <1>1, <2>1, <2>3, <2>4, <2>5 DEF Types
<1>4. ASSUME NEW t \in Thread, Erase(t) \/ WriteHeader(t) \/ ProgramData(t)
      PROVE  Types'
  <2>1. ASSUME NEW f, NEW next \in CallPhase, Operation(t, f, next)
        PROVE  job' \in [Thread -> JobType]
    <3>1. job[t] \in JobType /\ Idle \in JobType
      BY <1>1, NotHeldType
    <3>2. [job[t] EXCEPT !.pc = next] \in JobType
      BY <3>1 DEF JobType
    <3>3. job' = [job EXCEPT ![t] =
            IF next = "idle" THEN Idle ELSE [job[t] EXCEPT !.pc = next]]
      BY <1>1, <2>1 DEF Operation
    <3>. QED BY <1>1, <3>1, <3>2, <3>3
  <2>2. job' \in [Thread -> JobType]
    BY <1>1, <1>4, <2>1
       DEF Erase, WriteHeader, ProgramData, ProgramPhase, Assertion, CallPhase
  <2>3. held' = held
    BY <1>4, WriteStep
  <2>. QED BY <1>1, <2>2, <2>3 DEF Types
<1>5. ASSUME NEW t \in Thread, NEW b \in Block, Read(t, b)
      PROVE  Types'
  <2>1. held' = [held EXCEPT ![t] = Got(b)] /\ job' = job
    BY <1>5 DEF Read, Got
  <2>2. Got(b) \in HeldType /\ Got(b).block \in Block
    BY <1>2, CommittedType DEF Got, HeldType
  <2>3. held' \in [Thread -> HeldType]
    BY <1>1, <2>1, <2>2
  <2>. HIDE DEF Got
  <2>4. \A u \in Thread : held'[u] # NotHeld => held'[u].block \in Block
    BY <1>1, <2>1, <2>2
  <2>. QED BY <1>1, <2>1, <2>3, <2>4 DEF Types
<1>6. ASSUME NEW t \in Thread, Release(t)
      PROVE  Types'
  BY <1>1, <1>6, NotHeldType DEF Release, Types
<1>7. CASE UNCHANGED vars
  BY <1>1, <1>7 DEF vars, Types
<1>. QED BY <1>3, <1>4, <1>5, <1>6, <1>7 DEF Next
LEMMA FlashKept ==
  ASSUME TInv, Serial, Serial', [Next]_vars
  PROVE  FlashInv'
<1>1. ASSUME NEW b \in Block
      PROVE  Allocated(sector', b)
  <2>1. IsNewest(sector, b, Newest(sector, b))
    BY AloneFacts, NewestIs DEF TInv, FlashInv
  <2>2. /\ Alone!IInv /\ [Alone!Next]_(Alone!vars) /\ b \in Alone!Block
        /\ Alone!IsNewest(sector, b, Newest(sector, b))
    BY <2>1, StepIsOrfsStep, SameSets, SameScans DEF TInv
  <2>3. Newest(sector, b) \in Alone!Copies(sector', b)
    BY <2>2, Alone!NewestSurvives, FormatAssumption
  <2>. QED BY <2>3, SameScans DEF Allocated
<1>2. ASSUME NEW s \in Sector, sector'[s].sig
      PROVE  sector'[s].block \in Block
  <2>1. CASE sector' = sector
    BY <1>2, <2>1 DEF TInv, FlashInv
  <2>2. CASE \E t \in Thread : Erase(t) \/ WriteHeader(t) \/ ProgramData(t)
    BY <1>2, <2>2, WriteFacts
  <2>. QED BY <2>1, <2>2 DEF Next, BeginPatch, Read, Release, vars
<1>. QED BY <1>1, <1>2 DEF FlashInv

(* A patch begins: pointers age.                                           *)
LEMMA BeginKeepsPointers ==
  ASSUME TInv, Serial', NEW t \in Thread, NEW b \in Block, NEW p \in Patch,
         BeginPatch(t, b, p)
  PROVE  PointerInv'
<1>1. /\ Call'.dest = find_empty_sector(sector)
      /\ held' = [u \in Thread |-> Aged(held[u])]
      /\ sector' = sector
  BY BeginStep
<1> SUFFICES ASSUME NEW u \in Thread, held'[u] # NotHeld, held'[u].patches <= 1
             PROVE  /\ sector[held'[u].sector].data = held'[u].data
                    /\ held'[u].patches # 0
                    /\ held'[u].sector # find_empty_sector(sector)
  BY <1>1 DEF PointerInv
<1>2. held[u] \in HeldType /\ held'[u] = Aged(held[u]) /\ held[u] # NotHeld
  BY <1>1 DEF TInv, Types, Aged
<1>3. /\ held[u].patches = 0 /\ held'[u].patches = 1
      /\ held'[u].sector = held[u].sector /\ held'[u].data = held[u].data
  BY <1>2 DEF Aged, HeldType
<1>4. /\ sector[held[u].sector].data = held[u].data
      /\ IsNewest(sector, held[u].block, held[u].sector)
      /\ held[u].block \in Block
  BY <1>2, <1>3 DEF TInv, Types, PointerInv
<1>. QED BY <1>3, <1>4, SearchFacts

(* A write goes where no pointer points to that may still be used.         *)
LEMMA WriteKeepsPointers ==
  ASSUME TInv, Serial, NEW t \in Thread, Erase(t) \/ WriteHeader(t) \/ ProgramData(t)
  PROVE  PointerInv'
<1>1. /\ held' = held /\ Call.pc # "idle"
      /\ Call'.pc # "idle" => Call'.block = Call.block /\ Call'.dest = Call.dest
  BY WriteStep
<1> SUFFICES ASSUME NEW u \in Thread, held[u] # NotHeld
             PROVE  LET h == held[u]
                    IN  /\ h.patches <= 1 => sector'[h.sector].data = h.data
                        /\ h.patches = 0 => /\ IsNewest(sector', h.block, h.sector)
                                            /\ Call.block # h.block
                        /\ h.patches = 1 => h.sector # Call.dest
  BY <1>1 DEF PointerInv
<1> DEFINE h == held[u]
<1>2. /\ h.patches \in 0 .. 2 /\ h.sector \in Sector /\ h.block \in Block
  BY DEF TInv, Types, HeldType
<1>3. /\ h.patches <= 1 => sector[h.sector].data = h.data
      /\ h.patches = 0 => /\ IsNewest(sector, h.block, h.sector)
                          /\ Call.block # h.block
      /\ h.patches = 1 => h.sector # Call.dest
  BY <1>1 DEF TInv, PointerInv
<1>. HIDE DEF h
<1>4. h.patches = 0 => /\ h.sector # Call.dest
                       /\ IsNewest(sector', h.block, h.sector)
  BY <1>2, <1>3, WriteFacts
<1>5. h.patches <= 1 => sector'[h.sector] = sector[h.sector]
  BY <1>2, <1>3, <1>4, WriteFacts
<1>. QED BY <1>3, <1>4, <1>5 DEF h

(* A new pointer shows the newest copy, which is complete if nobody is     *)
(* patching the block.                                                     *)
LEMMA ReadKeepsPointers ==
  ASSUME TInv, Serial, NEW t \in Thread, NEW b \in Block, Read(t, b)
  PROVE  PointerInv'
<1>1. /\ held' = [held EXCEPT ![t] = Got(b)] /\ sector' = sector /\ Call' = Call
      /\ held \in [Thread -> HeldType]
  BY ReaderStep DEF Read, Got, TInv, Types
<1>2. IsNewest(sector, b, Newest(sector, b)) /\ Allocated(sector, b)
  BY AloneFacts, NewestIs DEF TInv, FlashInv
<1>3. CASE \E u \in Thread : job[u].pc # "idle" /\ job[u].block = b
  <2>1. Got(b).patches = 2
    BY <1>3 DEF Got
  <2>. HIDE DEF Got
  <2>. QED BY <1>1, <2>1 DEF TInv, PointerInv
<1>4. CASE ~\E u \in Thread : job[u].pc # "idle" /\ job[u].block = b
  <2>1. Committed(b) = sector[Newest(sector, b)].data
    BY <1>2, <1>4 DEF Committed, Copying, Content
  <2>2. /\ Got(b).patches = 0 /\ Got(b).block = b /\ Got(b).sector = Newest(sector, b)
        /\ Got(b).data = sector[Newest(sector, b)].data
    BY <1>4, <2>1 DEF Got
  <2>3. Call.pc # "idle" => Call.block # b
    BY <1>4 DEF Call, NoCall
  <2>. HIDE DEF Got
  <2>. QED BY <1>1, <1>2, <2>2, <2>3 DEF TInv, PointerInv
<1>. QED BY <1>3, <1>4

LEMMA PointersKept ==
  ASSUME TInv, Serial, Serial', [Next]_vars
  PROVE  PointerInv'
<1>1. ASSUME NEW t \in Thread, Release(t)
      PROVE  PointerInv'
  <2>1. /\ held' = [held EXCEPT ![t] = NotHeld] /\ sector' = sector /\ Call' = Call
        /\ held \in [Thread -> HeldType]
    BY <1>1, ReaderStep DEF Release, TInv, Types
  <2>. QED BY <2>1 DEF TInv, PointerInv
<1>2. CASE UNCHANGED vars
  BY <1>2 DEF vars, TInv, PointerInv, Call
<1>. QED BY <1>1, <1>2, BeginKeepsPointers, WriteKeepsPointers, ReadKeepsPointers DEF Next

LEMMA NextKeepsTInv ==
  ASSUME TInv, Serial, Serial', [Next]_vars
  PROVE  TInv'
<1>1. Alone!IInv /\ [Alone!Next]_(Alone!vars) => Alone!IInv'
  BY Alone!NextKeepsIInv, FormatAssumption
<1>. QED BY <1>1, StepIsOrfsStep, TypesKept, FlashKept, PointersKept DEF TInv

(* Every block has one copy, complete, in a sector of its own.             *)
LEMMA InitTInv == Init => TInv
<1> SUFFICES ASSUME Init PROVE TInv
  OBVIOUS
<1>. USE FormatAssumption
<1>1. /\ job = [t \in Thread |-> Idle] /\ held = [t \in Thread |-> NotHeld]
      /\ halted = FALSE
  BY DEF Init
<1>2. PICK d \in [Block -> Data] :
        sector = [s \in Sector |->
          IF s \in Block
          THEN [sig |-> TRUE, block |-> s, rev |-> JOURNAL_YOUNGEST, data |-> d[s]]
          ELSE Erased]
  BY DEF Init
<1>3. Types /\ PointerInv
  BY <1>1, NotHeldType DEF Types, PointerInv
<1>4. Call = NoCall
  BY <1>1, NoCallIs DEF Idle
<1>5. Block \subseteq Sector /\ 0 \in Block /\ 0 \in Sector
      /\ JOURNAL_YOUNGEST \in 0 .. JOURNAL_INVALID
  BY DEF Block, BLOCK_TOTAL, Sector, JOURNAL_INVALID
<1>6. Erased \in [sig   : BOOLEAN,
                  block : Block \cup {NoBlock},
                  rev   : 0 .. JOURNAL_INVALID,
                  data  : Data]
  BY DEF Erased, JOURNAL_INVALID, NoBlock, Block, BLOCK_TOTAL, Data, BlankData
<1>7. sector \in Image
  BY <1>2, <1>5, <1>6 DEF Image
<1>8. \A b \in Block : Copies(sector, b) = {b}
  BY <1>2, <1>5 DEF Copies, Erased
<1>9. FlashInv
  BY <1>2, <1>8 DEF FlashInv, Allocated, Erased
<1>10. Alone!TypeOK
  BY <1>1, <1>4, <1>5, <1>7, SameSets
     DEF NoCall, Alone!TypeOK, Alone!Phase, Alone!NoPatch
<1>11. Alone!PhaseInv /\ Alone!EraseIsSafe /\ Alone!NoAssertionFails
  BY <1>1, <1>4 DEF NoCall, Alone!PhaseInv, Alone!EraseIsSafe, Alone!NoAssertionFails
<1>12. Alone!RevisionsDistinct
  BY <1>8, SameSets, SameScans DEF Alone!RevisionsDistinct
<1>. QED BY <1>3, <1>9, <1>10, <1>11, <1>12 DEF TInv, Alone!IInv

(* Where calls do not overlap, the invariant holds from the start on.      *)
THEOREM SerialInvariant == Spec /\ []Serial => []TInv
<1>1. TInv /\ Serial /\ Serial' /\ [Next]_vars => TInv'
  BY NextKeepsTInv
<1>. QED BY <1>1, InitTInv, PTL DEF Spec

-----------------------------------------------------------------------------
(* What the invariant is for.                                              *)

(* Where calls do not overlap, the threads put the flash through the steps *)
(* that storage.c takes for a single caller.                               *)
THEOREM SerialCallsAreOrfs == Spec /\ []Serial => [][Alone!Next]_(Alone!vars)
<1>1. TInv /\ Serial /\ Serial' /\ [Next]_vars => [Alone!Next]_(Alone!vars)
  BY StepIsOrfsStep
<1>. QED BY <1>1, SerialInvariant, PTL DEF Spec

(* Without a power loss no patch is lost.                                  *)
LEMMA NothingIsLost == TInv => Alone!Job # Alone!Lost
<1>. SUFFICES ASSUME TInv, Alone!Job = Alone!Lost PROVE FALSE
  OBVIOUS
<1>1. ~halted /\ Call.block \in Block
  BY AloneFacts
<1>2. Call.pc \in CallPhase
  BY DEF TInv, Types, Call, NoCall, CallPhase, JobType
<1>3. Call.block # Alone!NoBlock
  BY <1>1, SameSets, FormatAssumption DEF Block, NoBlock, BLOCK_TOTAL
<1>4. CASE Call.pc = "idle"
  <2>1. Alone!NoPatch = Alone!BlankData
    BY <1>1, <1>4 DEF Alone!Job, Alone!NoJob, Alone!Lost
  <2>2. DOMAIN Alone!NoPatch = {} /\ DOMAIN Alone!BlankData = Word
    BY SameSets DEF Alone!NoPatch, BlankData
  <2>3. 1 \in Word
    BY FormatAssumption DEF Word
  <2>. QED BY <2>1, <2>2, <2>3
<1>5. CASE Call.pc # "idle"
  BY <1>1, <1>2, <1>3, <1>5 DEF Alone!Job, Alone!Lost, CallPhase
<1>. QED BY <1>4, <1>5

(* Where calls do not overlap, patches are atomic: what the blocks hold    *)
(* for good changes by one whole patch of one block at a time, in the step *)
(* that ends a call.                                                       *)
THEOREM SerialPatchesAreAtomic ==
  Spec /\ []Serial =>
    [][Alone!Store!Next /\ ~Alone!Store!PowerLoss]_(Alone!Store!vars)
<1>1. TInv /\ TInv' /\ [Alone!Next]_(Alone!vars)
        => [Alone!Store!Next /\ ~Alone!Store!PowerLoss]_(Alone!Store!vars)
  <2>. SUFFICES ASSUME TInv, TInv', [Alone!Next]_(Alone!vars)
                PROVE  [Alone!Store!Next /\ ~Alone!Store!PowerLoss]_(Alone!Store!vars)
    OBVIOUS
  <2>1. [Alone!Store!Next]_(Alone!Store!vars)
    BY Alone!NextRefines, FormatAssumption DEF TInv
  <2>2. Alone!Store!PowerLoss => Alone!Job' = Alone!Lost
    BY DEF Alone!Store!PowerLoss
  <2>3. (TInv => Alone!Job # Alone!Lost)'
    BY NothingIsLost, PTL
  <2>. QED BY <2>1, <2>2, <2>3
<1>. QED BY <1>1, SerialInvariant, SerialCallsAreOrfs, PTL

(* Where calls do not overlap, no block disappears or goes back to an      *)
(* older copy, whichever threads patch.                                    *)
THEOREM SerialNoRollBack ==
  Spec /\ []Serial =>
    [][\A b \in Block : Allocated(sector', b) /\
         sector'[Newest(sector', b)].rev <= sector[Newest(sector, b)].rev]_vars
<1>1. ASSUME TInv, TInv', [Alone!Next]_(Alone!vars), NEW b \in Block
      PROVE  /\ Allocated(sector', b)
             /\ sector'[Newest(sector', b)].rev <= sector[Newest(sector, b)].rev
  <2>1. /\ Alone!IInv /\ Alone!IInv' /\ b \in Alone!Block
        /\ Alone!Allocated(sector, b)
    BY <1>1, SameSets, SameScans DEF TInv, FlashInv
  <2>2. /\ Alone!Allocated(sector', b)
        /\ sector'[Alone!Newest(sector', b)].rev <= sector[Alone!Newest(sector, b)].rev
    BY <1>1, <2>1, Alone!NextKeepsBlocks, FormatAssumption
  <2>. QED BY <2>2, SameScans
<1>2. TInv /\ TInv' /\ [Alone!Next]_(Alone!vars) =>
        [\A b \in Block : Allocated(sector', b) /\
           sector'[Newest(sector', b)].rev <= sector[Newest(sector, b)].rev]_vars
  BY <1>1
<1>. QED BY <1>2, SerialInvariant, SerialCallsAreOrfs, PTL

(* Where calls do not overlap, no assertion of storage.c fails, whatever   *)
(* the threads patch and read.                                             *)
THEOREM SerialAssertionsHold == Spec /\ []Serial => []NoAssertionFails
<1>1. TInv => NoAssertionFails
  BY AloneFacts DEF NoAssertionFails
<1>. QED BY <1>1, SerialInvariant, PTL

(* Where calls do not overlap, a pointer into flash shows the data it was  *)
(* got for until a second patch begins.                                    *)
THEOREM SerialPointersSurvive == Spec /\ []Serial => []PointerSurvivesOnePatch
<1>1. TInv => PointerSurvivesOnePatch
  BY DEF TInv, PointerInv, PointerSurvivesOnePatch
<1>. QED BY <1>1, SerialInvariant, PTL

-----------------------------------------------------------------------------
(* One writer.                                                             *)

(* Threads that may patch nothing have no call in progress.                *)
OthersIdle ==
  /\ DOMAIN job = Thread
  /\ \A t \in Thread : MayPatch[t] = {} => job[t].pc = "idle"

LEMMA NextKeepsOthersIdle == OthersIdle /\ [Next]_vars => OthersIdle'
<1> SUFFICES ASSUME OthersIdle, [Next]_vars PROVE OthersIdle'
  OBVIOUS
<1>1. ASSUME NEW t \in Thread, NEW b \in Block, NEW p \in Patch, BeginPatch(t, b, p)
      PROVE  OthersIdle'
  BY <1>1 DEF BeginPatch, OthersIdle
<1>2. ASSUME NEW t \in Thread, Erase(t) \/ WriteHeader(t) \/ ProgramData(t)
      PROVE  OthersIdle'
  <2>1. job[t].pc # "idle"
    BY <1>2 DEF Erase, WriteHeader, ProgramData, ProgramPhase
  <2>2. ASSUME NEW f, NEW next, Operation(t, f, next)
        PROVE  OthersIdle'
    BY <2>1, <2>2 DEF Operation, OthersIdle
  <2>3. CASE job' = job
    BY <2>3 DEF OthersIdle
  <2>. QED BY <1>2, <2>2, <2>3 DEF Erase, WriteHeader, ProgramData, ProgramPhase, Assertion
<1>3. CASE \/ \E t \in Thread : Release(t) \/ \E b \in Block : Read(t, b)
           \/ UNCHANGED vars
  BY <1>3 DEF Release, Read, vars, OthersIdle
<1>. QED BY <1>1, <1>2, <1>3 DEF Next

(* If a single thread does all the patching, calls do not overlap.  So it  *)
(* is in the firmware while genes and configuration change: that is the    *)
(* event thread.  It is so no more once the ship mode app flushes from the *)
(* app thread (app-shipmode.c:48), or the shell runs self tests.           *)
THEOREM OneWriterIsSerial ==
  ASSUME SingleWriter
  PROVE  Spec => []Serial
<1>1. Init => OthersIdle
  BY DEF Init, OthersIdle, Idle
<1>2. OthersIdle => Serial
  BY DEF OthersIdle, Serial, SingleWriter
<1>. QED BY <1>1, <1>2, NextKeepsOthersIdle, PTL DEF Spec

(* No assertion of storage.c fails while a single thread writes and any    *)
(* number of threads read.                                                 *)
THEOREM AssertionsHoldWithOneWriter ==
  ASSUME SingleWriter
  PROVE  Spec => []NoAssertionFails
BY OneWriterIsSerial, SerialAssertionsHold, PTL

(* A pointer into flash outlives the next patch of a single writer.        *)
THEOREM PointersSurviveOneWriter ==
  ASSUME SingleWriter
  PROVE  Spec => []PointerSurvivesOnePatch
BY OneWriterIsSerial, SerialPointersSurvive, PTL
=============================================================================
