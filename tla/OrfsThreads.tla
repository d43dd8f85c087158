---------------------------- MODULE OrfsThreads ----------------------------
(***************************************************************************)
(* storage.c as the running badge uses it.  The event thread flushes the   *)
(* configuration every second and stores new genes, the app thread flushes *)
(* the configuration when "power off" starts, the app and effects threads  *)
(* read.  storage.c takes no lock: each erase and program operation sleeps *)
(* a millisecond (go_72mhz_mode) before it locks the system, so the calls  *)
(* of different threads interleave between operations.  Readers keep the   *)
(* pointer into flash that storageGetData returned and use it later.       *)
(*                                                                         *)
(* The scans of the headers are one step each; blocks are allocated before *)
(* the threads start (geneStart and configStart).  No power loss here.     *)
(***************************************************************************)
EXTENDS OrfsFormat

CONSTANTS
  Thread,    \* threads that use the file system
  MayPatch   \* the blocks each of them patches

ASSUME ThreadsAssumption == MayPatch \in [Thread -> SUBSET Block]

VARIABLES
  sector,  \* the flash image
  job,     \* each thread's call of storagePatchData
  held,    \* the pointer each thread got from storageGetData, and what the
           \* block held for good at that time
  halted   \* an osalDbgAssert failed

vars == <<sector, job, held, halted>>

Idle == [pc |-> "idle", block |-> 0, patch |-> BlankData, src |-> 0, dest |-> 0]
NotHeld == [block |-> NoBlock, sector |-> 0, data |-> BlankData, patches |-> 0]

Copying(j, b) == j.pc \in {"prefix", "patch", "tail"} /\ j.block = b

(* What the completed patches have made of block b.                        *)
Committed(b) ==
  IF \E t \in Thread : Copying(job[t], b)
  THEN LET t == CHOOSE u \in Thread : Copying(job[u], b)
       IN  sector[job[t].src].data
  ELSE Content(sector, b)

(* geneStart and configStart have allocated and filled every block.        *)
Init ==
  /\ \E d \in [Block -> Data] :
       /\ \A b \in Block, w \in Word : d[b][w] # Blank
       /\ sector = [s \in Sector |->
            IF s \in Block
            THEN [sig |-> TRUE, block |-> s, rev |-> JOURNAL_YOUNGEST, data |-> d[s]]
            ELSE Erased]
  /\ job = [t \in Thread |-> Idle]
  /\ held = [t \in Thread |-> NotHeld]
  /\ halted = FALSE

-----------------------------------------------------------------------------
(* For every held pointer, one more patch has begun (counted up to 2).     *)
Aged(h) == IF h = NotHeld THEN h ELSE [h EXCEPT !.patches = IF @ < 2 THEN @ + 1 ELSE @]

(* storagePatchData up to its first flash operation: every patch of this   *)
(* system overwrites programmed words, so it goes into a new copy.         *)
BeginPatch(t, b, p) ==
  /\ ~halted /\ job[t].pc = "idle"
  /\ b \in MayPatch[t]
  /\ ~WordsErased(sector, Newest(sector, b), DOMAIN p)
  /\ IF find_empty_sector(sector) = SECTOR_INVALID
     THEN halted' = TRUE /\ UNCHANGED <<sector, job, held>>
     ELSE /\ sector[Newest(sector, b)].rev # 0
          /\ job' = [job EXCEPT ![t] =
               [pc |-> "erase", block |-> b, patch |-> p,
                src |-> Newest(sector, b), dest |-> find_empty_sector(sector)]]
          /\ held' = [u \in Thread |-> Aged(held[u])]
          /\ UNCHANGED <<sector, halted>>

(* One flash operation of thread t's call, then on to phase next.          *)
Operation(t, f, next) ==
  /\ sector' = f
  /\ job' = [job EXCEPT ![t] =
       IF next = "idle" THEN Idle ELSE [@ EXCEPT !.pc = next]]
  /\ UNCHANGED <<held, halted>>

Assertion(ok, t, f, next) ==
  IF ok THEN Operation(t, f, next)
        ELSE halted' = TRUE /\ UNCHANGED <<sector, job, held>>

(* Mutant: the erase is skipped.                                           *)
Erase_skipped(t) ==
  /\ ~halted /\ job[t].pc = "erase"
  /\ Operation(t, sector, "header")

Erase(t) ==
  /\ ~halted /\ job[t].pc = "erase"
  /\ Operation(t, EraseSector(sector, job[t].dest), "header")

WriteHeader(t) ==
  LET j == job[t]
  IN  /\ ~halted /\ j.pc = "header"
      /\ Assertion(HeaderErased(sector, j.dest), t,
                   ProgramHeader(sector, j.dest, j.block, sector[j.src].rev - 1),
                   "prefix")

(* The three programming phases: prefix from src, the patch, tail from src. *)
ProgramPhase(t, phase, W, d, next) ==
  /\ ~halted /\ job[t].pc = phase
  /\ Assertion(WordsErased(sector, job[t].dest, W), t,
               ProgramWords(sector, job[t].dest, W, d), next)

Before(p) == {w \in Word : \A v \in DOMAIN p : w < v}
After(p)  == {w \in Word : \A v \in DOMAIN p : w > v}

ProgramData(t) ==
  LET j == job[t]
      old == sector[j.src].data
  IN  \/ ProgramPhase(t, "prefix", Before(j.patch), old, "patch")
      \/ ProgramPhase(t, "patch", DOMAIN j.patch, j.patch, "tail")
      \/ ProgramPhase(t, "tail", After(j.patch), old, "idle")

(* storageGetData: the pointer a thread keeps, and its last use of it.  A   *)
(* pointer got during a patch of its block counts as two patches old.      *)
Read(t, b) ==
  /\ ~halted /\ job[t].pc = "idle" /\ held[t] = NotHeld
  /\ held' = [held EXCEPT ![t] =
       [block |-> b, sector |-> Newest(sector, b),
        data |-> Committed(b),
        patches |-> IF \E u \in Thread : job[u].pc # "idle" /\ job[u].block = b
                    THEN 2 ELSE 0]]
  /\ UNCHANGED <<sector, job, halted>>

Release(t) ==
  /\ ~halted /\ held[t] # NotHeld
  /\ held' = [held EXCEPT ![t] = NotHeld]
  /\ UNCHANGED <<sector, job, halted>>

Next ==
  \E t \in Thread :
    \/ \E b \in Block, p \in Patch : BeginPatch(t, b, p)
    \/ Erase(t) \/ WriteHeader(t) \/ ProgramData(t)
    \/ \E b \in Block : Read(t, b)
    \/ Release(t)

Spec == Init /\ [][Next]_vars

-----------------------------------------------------------------------------
(* "Low level programming error in storagePatchData", "Sector init failed  *)
(* on programming error": the assertions of storage.c say that no sector   *)
(* is programmed twice between two erases.                                 *)
NoAssertionFails == ~halted

(* A pointer got while no patch of its block was under way keeps showing   *)
(* the data it was got for until a second patch begins, although nothing   *)
(* tells storage.c that it is in use.                                      *)
PointerSurvivesOnePatch ==
  \A t \in Thread :
    LET h == held[t]
    IN  h # NotHeld /\ h.patches <= 1 => sector[h.sector].data = h.data
=============================================================================
