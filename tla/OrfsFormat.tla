----------------------------- MODULE OrfsFormat -----------------------------
(***************************************************************************)
(* The on-flash format of the Orchard file system (storage.c, storage.h):  *)
(* a row of sectors, each one erased or headed by {signature, block,       *)
(* journalrev} and followed by the data words of one copy of that block.   *)
(* This module holds the constants of the format, what the flash controller*)
(* does to a sector, and the two scans storage.c makes of the headers.  It *)
(* has no state of its own: the operators take the image f of the flash.   *)
(*                                                                         *)
(* Abstracted: the version word (always ORFS_REV, never read back), byte   *)
(* offsets (a patch is a function on a range of data words), and the       *)
(* content of a word (a member of Value; Blank stands for 0xFFFFFFFF).     *)
(***************************************************************************)
EXTENDS Integers

CONSTANTS
  SECTOR_COUNT,     \* sectors of the storage area
  WORDS,            \* data words of a sector
  JOURNAL_YOUNGEST, \* first journal revision of a block (counts down to 0)
  Value,            \* what a data word may hold
  Blank             \* an erased data word, 0xFFFFFFFF

ASSUME FormatAssumption ==
  /\ SECTOR_COUNT \in Nat /\ SECTOR_COUNT >= 2
  /\ WORDS \in Nat \ {0}
  /\ JOURNAL_YOUNGEST \in Nat
  /\ Blank \in Value

(* One sector is reserved for swapping in for updates. *)
BLOCK_TOTAL     == SECTOR_COUNT - 1

Sector          == 0 .. SECTOR_COUNT - 1
Block           == 0 .. BLOCK_TOTAL - 1
Word            == 1 .. WORDS
SECTOR_INVALID  == SECTOR_COUNT          \* any number that is not a sector
JOURNAL_INVALID == JOURNAL_YOUNGEST + 1  \* the journalrev word, erased
NoBlock         == BLOCK_TOTAL           \* the block word, erased

Data  == [Word -> Value]
Image == [Sector -> [sig   : BOOLEAN,
                     block : Block \cup {NoBlock},
                     rev   : 0 .. JOURNAL_INVALID,
                     data  : Data]]

BlankData == [w \in Word |-> Blank]

(* Patches callers make: values for a contiguous range of data words that  *)
(* stays inside the sector, as every caller's (offset, size) does.         *)
WordRange == {lo .. hi : lo, hi \in Word} \ {{}}
Patch == UNION {[R -> Value] : R \in WordRange}

(* Data d once patch p has been applied to it. *)
Apply(d, p) == [w \in Word |-> IF w \in DOMAIN p THEN p[w] ELSE d[w]]

-----------------------------------------------------------------------------
(* What flashErase and flashProgram leave in a sector.                     *)

Erased == [sig |-> FALSE, block |-> NoBlock, rev |-> JOURNAL_INVALID,
           data |-> BlankData]

EraseSector(f, s) == [f EXCEPT ![s] = Erased]

ProgramHeader(f, s, b, r) ==
  [f EXCEPT ![s] = [sig |-> TRUE, block |-> b, rev |-> r, data |-> @.data]]

(* flashProgram of the words of W with their values in d. *)
ProgramWords(f, s, W, d) ==
  [f EXCEPT ![s].data = [w \in Word |-> IF w \in W THEN d[w] ELSE @[w]]]

(* The precondition flashProgram verifies: the destination bytes are erased *)
HeaderErased(f, s) ==
  ~f[s].sig /\ f[s].block = NoBlock /\ f[s].rev = JOURNAL_INVALID
WordsErased(f, s, W) == \A w \in W : f[s].data[w] = Blank

-----------------------------------------------------------------------------
(* The scan of storageGetData and storage_get_journal: the copy of block b *)
(* with the lowest valid journal revision, the last one on a tie.          *)

Copies(f, b) ==
  {s \in Sector : f[s].sig /\ f[s].block = b /\ f[s].rev <= JOURNAL_YOUNGEST}

Allocated(f, b) == Copies(f, b) # {}

IsNewest(f, b, s) ==
  /\ s \in Copies(f, b)
  /\ \A t \in Copies(f, b) :
       f[s].rev < f[t].rev \/ (f[s].rev = f[t].rev /\ t <= s)

Newest(f, b) == CHOOSE s \in Sector : IsNewest(f, b, s)

(* What a reader of block b finds; a block that is not allocated yet is    *)
(* allocated blank by the read.                                            *)
Content(f, b) == IF Allocated(f, b) THEN f[Newest(f, b)].data ELSE BlankData

-----------------------------------------------------------------------------
(* find_empty_sector: stop at the first sector without a signature, or     *)
(* whose block was met before; in the latter case the older of the two     *)
(* copies is the one to erase.                                             *)

StopsAt(f, i) ==
  \/ ~f[i].sig
  \/ \E j \in 0 .. i - 1 : f[j].block = f[i].block

IsFirstStop(f, i) ==
  /\ i \in Sector
  /\ StopsAt(f, i)
  /\ \A j \in 0 .. i - 1 : ~StopsAt(f, j)

FirstStop(f) == CHOOSE i \in Sector : IsFirstStop(f, i)

(* Mutant: of two copies of a block, the newer is erased.                  *)
find_empty_sector_newer(f) ==
  IF \A i \in Sector : ~StopsAt(f, i)
  THEN SECTOR_INVALID
  ELSE LET i == FirstStop(f)
       IN  IF ~f[i].sig
           THEN i
           ELSE LET j == CHOOSE k \in 0 .. i - 1 : f[k].block = f[i].block
                IN  IF f[i].rev < f[j].rev THEN i ELSE j

find_empty_sector(f) ==
  IF \A i \in Sector : ~StopsAt(f, i)
  THEN SECTOR_INVALID
  ELSE LET i == FirstStop(f)
       IN  IF ~f[i].sig
           THEN i
           ELSE LET j == CHOOSE k \in 0 .. i - 1 : f[k].block = f[i].block
                IN  IF f[i].rev < f[j].rev THEN j ELSE i

(* The scan indexes its tables of BLOCK_TOTAL entries with the block word  *)
(* of every signed sector it passes: it leaves them when a sector carries  *)
(* a signature and no block number.                                        *)
ScanOutOfBounds(f) ==
  \E i \in Sector : /\ f[i].sig /\ f[i].block = NoBlock
                    /\ \A j \in 0 .. i - 1 : ~StopsAt(f, j)

=============================================================================
