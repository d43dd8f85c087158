-------------------------------- MODULE Orfs --------------------------------
(***************************************************************************)
(* storage.c, one caller at a time: every call of storagePatchData and     *)
(* storageGetData as the erase and program operations it sends to the      *)
(* flash controller, with a power loss possible in each of them.  The boot *)
(* code and the event thread use the file system this way; OrfsThreads     *)
(* models what happens when a second thread joins in.                      *)
(*                                                                         *)
(* An erase or a program operation runs with the system locked (flash.c),  *)
(* so it is one step, unless the power fails in the middle of it.          *)
(***************************************************************************)
EXTENDS OrfsFormat

VARIABLES
  sector,  \* the flash image
  pc,      \* what storage.c is about to do
  block,   \* arguments of the call in progress
  patch,
  src,     \* the sector storageGetData found for the block
  dest     \* the sector being written

vars == <<sector, pc, block, patch, src, dest>>

(* A read is a call that patches nothing. *)
NoPatch == [w \in {} |-> Blank]

Init ==
  /\ sector = [s \in Sector |-> Erased]
  /\ pc = "idle"
  /\ block = 0 /\ patch = NoPatch
  /\ src = 0 /\ dest = 0

-----------------------------------------------------------------------------
(* Choosing where to write.  find_empty_sector halts the system when it    *)
(* finds nothing, and has undefined behaviour when it meets a signature    *)
(* without a block number.                                                 *)
TakeEmptySector(b, p, from) ==
  IF ScanOutOfBounds(sector)
  THEN pc' = "undefined" /\ UNCHANGED <<block, patch, src, dest>>
  ELSE IF find_empty_sector(sector) = SECTOR_INVALID
  THEN pc' = "halted" /\ UNCHANGED <<block, patch, src, dest>>
  ELSE /\ pc' = "erase"
       /\ block' = b /\ patch' = p
       /\ dest' = find_empty_sector(sector) /\ src' = from

Allocate(b, p) ==
  /\ ~Allocated(sector, b)
  /\ TakeEmptySector(b, p, find_empty_sector(sector))
  /\ UNCHANGED sector

PatchInPlace(b, p) ==
  /\ Allocated(sector, b)
  /\ WordsErased(sector, Newest(sector, b), DOMAIN p)
  /\ pc' = "in place"
  /\ block' = b /\ patch' = p
  /\ dest' = Newest(sector, b) /\ src' = Newest(sector, b)
  /\ UNCHANGED sector

PatchIntoCopy(b, p) ==
  /\ Allocated(sector, b)
  /\ ~WordsErased(sector, Newest(sector, b), DOMAIN p)
  /\ sector[Newest(sector, b)].rev # 0
  /\ TakeEmptySector(b, p, Newest(sector, b))
  /\ UNCHANGED sector

(* F_ERR_JOURNAL_OVER, returned once find_empty_sector has succeeded.      *)
JournalOver(b, p) ==
  /\ Allocated(sector, b)
  /\ ~WordsErased(sector, Newest(sector, b), DOMAIN p)
  /\ sector[Newest(sector, b)].rev = 0
  /\ IF ScanOutOfBounds(sector) \/ find_empty_sector(sector) = SECTOR_INVALID
     THEN TakeEmptySector(b, p, Newest(sector, b)) /\ UNCHANGED sector
     ELSE UNCHANGED vars

storagePatchData(b, p) ==
  /\ pc = "idle"
  /\ \/ Allocate(b, p)
     \/ PatchInPlace(b, p)
     \/ PatchIntoCopy(b, p)
     \/ JournalOver(b, p)

storageGetData(b) ==
  /\ pc = "idle"
  /\ Allocate(b, NoPatch)

-----------------------------------------------------------------------------
(* init_sector: erase, then program the header.  A block that had no       *)
(* sector (src = dest) starts its journal, a copy continues it.            *)

Fresh == src = dest

(* Mutants: the journal counts down in steps of two, or not at all.        *)
NewRevision_by_two == IF Fresh THEN JOURNAL_YOUNGEST ELSE sector[src].rev - 2
NewRevision_same   == IF Fresh THEN JOURNAL_YOUNGEST ELSE sector[src].rev

NewRevision == IF Fresh THEN JOURNAL_YOUNGEST ELSE sector[src].rev - 1

(* Mutant: the sector that is being copied is erased.                      *)
Erase_source ==
  /\ pc = "erase"
  /\ sector' = EraseSector(sector, src)
  /\ pc' = "header"
  /\ UNCHANGED <<block, patch, src, dest>>

Erase ==
  /\ pc = "erase"
  /\ sector' = EraseSector(sector, dest)
  /\ pc' = "header"
  /\ UNCHANGED <<block, patch, src, dest>>

WriteHeader ==
  /\ pc = "header"
  /\ IF HeaderErased(sector, dest)
     THEN /\ sector' = ProgramHeader(sector, dest, block, NewRevision)
          /\ pc' = IF Fresh THEN "in place" ELSE "prefix"
     ELSE pc' = "halted" /\ UNCHANGED sector
  /\ UNCHANGED <<block, patch, src, dest>>

Forget == block' = 0 /\ patch' = NoPatch /\ src' = 0 /\ dest' = 0
Return == pc' = "idle" /\ Forget

(* flashProgram of some words of dest; anything but F_ERR_OK is asserted.  *)
Program(W, d) == /\ WordsErased(sector, dest, W)
                 /\ sector' = ProgramWords(sector, dest, W, d)

ProgramFails(W) == /\ ~WordsErased(sector, dest, W)
                   /\ pc' = "halted"
                   /\ UNCHANGED <<sector, block, patch, src, dest>>

(* Mutants: the prefix overlaps the patch, the tail starts a word late.    *)
Before_overlap == {w \in Word : \A v \in DOMAIN patch : w <= v}
After_late     == {w \in Word : \A v \in DOMAIN patch : w > v + 1}

Before == {w \in Word : \A v \in DOMAIN patch : w < v}
After  == {w \in Word : \A v \in DOMAIN patch : w > v}

ProgramInPlace ==
  /\ pc = "in place"
  /\ \/ Program(DOMAIN patch, patch) /\ Return
     \/ ProgramFails(DOMAIN patch)

CopyPrefix ==
  /\ pc = "prefix"
  /\ \/ /\ Program(Before, sector[src].data)
        /\ pc' = "patch"
        /\ UNCHANGED <<block, patch, src, dest>>
     \/ ProgramFails(Before)

ProgramPatch ==
  /\ pc = "patch"
  /\ \/ /\ Program(DOMAIN patch, patch)
        /\ pc' = "tail"
        /\ UNCHANGED <<block, patch, src, dest>>
     \/ ProgramFails(DOMAIN patch)

CopyTail ==
  /\ pc = "tail"
  /\ \/ Program(After, sector[src].data) /\ Return
     \/ ProgramFails(After)

-----------------------------------------------------------------------------
(* The power fails during the operation pc stands for: an erase has        *)
(* happened or not, programming has got through its first words.  All the  *)
(* rest of the state is RAM and lost.                                      *)

TornHeader ==
  {sector,
   ProgramHeader(sector, dest, NoBlock, JOURNAL_INVALID),
   ProgramHeader(sector, dest, block, JOURNAL_INVALID),
   ProgramHeader(sector, dest, block, NewRevision)}

TornWords(W, d) ==
  {ProgramWords(sector, dest, {w \in W : w <= k}, d) : k \in {0} \cup Word}

PowerLoss ==
  /\ \/ pc = "erase"    /\ sector' \in {sector, EraseSector(sector, dest)}
     \/ pc = "header"   /\ sector' \in TornHeader
     \/ pc = "in place" /\ sector' \in TornWords(DOMAIN patch, patch)
     \/ pc = "prefix"   /\ sector' \in TornWords(Before, sector[src].data)
     \/ pc = "patch"    /\ sector' \in TornWords(DOMAIN patch, patch)
     \/ pc = "tail"     /\ sector' \in TornWords(After, sector[src].data)
  /\ pc' = "off" /\ Forget

Restart ==
  /\ pc = "off" /\ pc' = "idle"
  /\ UNCHANGED <<sector, block, patch, src, dest>>

Next ==
  \/ \E b \in Block : storageGetData(b) \/ \E p \in Patch : storagePatchData(b, p)
  \/ Erase \/ WriteHeader
  \/ ProgramInPlace \/ CopyPrefix \/ ProgramPatch \/ CopyTail
  \/ PowerLoss \/ Restart

Spec == Init /\ [][Next]_vars

-----------------------------------------------------------------------------
(* Properties.                                                             *)

Phase == {"idle", "erase", "header", "in place", "prefix", "patch", "tail",
          "off", "halted", "undefined"}

(* Type invariant of the file system's state.                              *)
TypeOK ==
  /\ sector \in Image
  /\ pc \in Phase
  /\ block \in Block
  /\ patch \in Patch \cup {NoPatch}
  /\ src \in Sector /\ dest \in Sector

(* Where a call stands says what it has established: a fresh block has no  *)
(* copy yet, a copy is being made of the current sector whose journal is   *)
(* not used up, the sector being written is blank where the next operation *)
(* programs it and final before that, and it is the one readers find once  *)
(* it has a header.                                                        *)
PhaseInv ==
  /\ pc \in {"erase", "header"} =>
       IF Fresh THEN ~Allocated(sector, block)
       ELSE /\ IsNewest(sector, block, src)
            /\ sector[src].rev # 0
            /\ patch \in Patch
  /\ pc = "header" => sector[dest] = Erased
  /\ pc \in {"in place", "prefix", "patch", "tail"} =>
       IsNewest(sector, block, dest)
  /\ pc = "in place" => WordsErased(sector, dest, DOMAIN patch)
  /\ pc \in {"prefix", "patch", "tail"} =>
       src # dest /\ src \in Copies(sector, block) /\ patch \in Patch
  /\ pc = "prefix" => WordsErased(sector, dest, Word)
  /\ pc = "patch" => WordsErased(sector, dest, Word \ Before)
  /\ pc = "tail" => WordsErased(sector, dest, After)
  /\ pc \in {"patch", "tail"} =>
       \A w \in Before : sector[dest].data[w] = sector[src].data[w]
  /\ pc = "tail" =>
       \A w \in DOMAIN patch : sector[dest].data[w] = patch[w]

(* Between its choice by find_empty_sector and its erasure no sector is    *)
(* the newest copy of any block: erasing it loses no data a reader could   *)
(* still find.                                                             *)
EraseIsSafe ==
  pc = "erase" => \A b \in Block : ~IsNewest(sector, b, dest)

(* Two copies of a block never carry the same valid journal revision, so   *)
(* which of them is current never depends on where they lie.               *)
RevisionsDistinct ==
  \A b \in Block : \A s, t \in Copies(sector, b) :
    sector[s].rev = sector[t].rev => s = t

(* The assertions of storage.c hold: find_empty_sector finds a sector ("we *)
(* should never get here"), and no header or data word is programmed over  *)
(* words that were not erased, whatever was interrupted before.            *)
NoAssertionFails == pc # "halted"

(* A sector with a valid signature holds the block its header names        *)
(* ("signature: if invalid, assumed the sector can be erased", "block: set *)
(* to the block number"), so find_empty_sector never indexes its tables    *)
(* with anything but a block number.                                       *)
ScanStaysInBounds == pc # "undefined"

(* A block never goes back to an older copy, nor disappears: not while it  *)
(* is patched, not while another block is, and not across a power loss.    *)
NeverRollsBack ==
  [][\A b \in Block : Allocated(sector, b) =>
       /\ Allocated(sector', b)
       /\ sector'[Newest(sector', b)].rev <= sector[Newest(sector, b)].rev]_vars

(* The block a patch is copying counts as what its source sector holds,    *)
(* although readers would already find the copy.                           *)
Settled == [b \in Block |->
  IF pc \in {"prefix", "patch", "tail"} /\ b = block
  THEN sector[src].data
  ELSE Content(sector, b)]

NoJob == [block |-> NoBlock, patch |-> NoPatch]
Lost  == [block |-> NoBlock, patch |-> BlankData]
Job   == IF pc = "off" THEN Lost
         ELSE IF pc \in {"idle", "halted", "undefined"} THEN NoJob
         ELSE [block |-> block, patch |-> patch]

Store == INSTANCE BlockStore WITH
  Patch   <- Patch \cup {NoPatch},
  content <- Settled,
  pending <- Job

(* The file system implements the block store: a patch is all or nothing,  *)
(* leaves the other blocks alone, and a power loss damages the block being *)
(* patched and no other.                                                   *)
ImplementsBlockStore == Store!Spec
=============================================================================
