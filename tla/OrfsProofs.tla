----------------------------- MODULE OrfsProofs -----------------------------
(***************************************************************************)
(* Proofs about Orfs, for any number of sectors, words and revisions: the  *)
(* types, the safety of every erase, the absence of failed assertions and  *)
(* of roll-backs, across power losses; and that Orfs implements            *)
(* BlockStore.                                                             *)
(***************************************************************************)
EXTENDS Orfs, TLAPS, FiniteSetTheorems

(* A non-empty set of naturals has a least element.                        *)
LEMMA NatMin ==
  ASSUME NEW T \in SUBSET Nat, T # {}
  PROVE  \E m \in T : \A n \in T : m <= n
<1>1. PICK m \in T : \A n \in T : ~ (<<n, m>> \in OpToRel(<, Nat))
  BY WFMin, NatLessThanWellFounded
<1>2. ASSUME NEW n \in T
      PROVE  m <= n
  <2>1. ~(<<n, m>> \in {ss \in Nat \X Nat : ss[1] < ss[2]})
    BY <1>1, Zenon DEF OpToRel
  <2>2. <<n, m>> \in Nat \X Nat
    OBVIOUS
  <2>3. ~(n < m)
    BY <2>1, <2>2
  <2>. QED BY <2>3
<1>. QED BY <1>2

-----------------------------------------------------------------------------
(* The scans of the headers.                                               *)

(* A block that has a copy has exactly one newest copy, and storageGetData *)
(* finds it.                                                               *)
LEMMA NewestExists ==
  ASSUME NEW f \in Image, NEW b \in Block, Allocated(f, b)
  PROVE  IsNewest(f, b, Newest(f, b))
<1>. USE FormatAssumption DEF JOURNAL_INVALID
<1> DEFINE revs == {f[s].rev : s \in Copies(f, b)}
<1>1. \A s \in Sector : f[s].rev \in Nat
  BY DEF Image
<1>2. revs \in SUBSET Nat /\ revs # {}
  BY <1>1 DEF Allocated, Copies
<1>3. PICK r \in revs : \A q \in revs : r <= q
  BY <1>2, NatMin
<1> DEFINE tied == {SECTOR_COUNT - s : s \in {u \in Copies(f, b) : f[u].rev = r}}
<1>4. tied \in SUBSET Nat /\ tied # {}
  BY <1>3 DEF Copies, Sector
<1>5. PICK k \in tied : \A q \in tied : k <= q
  BY <1>4, NatMin
<1>6. PICK s \in Copies(f, b) : f[s].rev = r /\ k = SECTOR_COUNT - s
  BY <1>5
<1>7. ASSUME NEW t \in Copies(f, b)
      PROVE  f[s].rev < f[t].rev \/ (f[s].rev = f[t].rev /\ t <= s)
  <2>1. f[s].rev <= f[t].rev /\ f[s].rev \in Nat /\ f[t].rev \in Nat
    BY <1>1, <1>3, <1>6 DEF Copies
  <2>2. CASE f[t].rev = r
    <3>1. SECTOR_COUNT - t \in tied
      BY <2>2
    <3>2. SECTOR_COUNT - s <= SECTOR_COUNT - t /\ s \in Int /\ t \in Int
      BY <1>5, <1>6, <3>1 DEF Copies, Sector
    <3>. QED BY <2>2, <1>6, <3>2
  <2>3. CASE f[t].rev # r
    BY <2>1, <2>3, <1>6
  <2>. QED BY <2>2, <2>3
<1>8. IsNewest(f, b, s)
  BY <1>7 DEF IsNewest
<1>9. s \in Sector
  BY DEF Copies
<1>. QED BY <1>8, <1>9 DEF Newest

LEMMA NewestUnique ==
  ASSUME NEW f \in Image, NEW b \in Block, NEW s, NEW t,
         IsNewest(f, b, s), IsNewest(f, b, t)
  PROVE  s = t
BY FormatAssumption DEF IsNewest, Copies, Sector, Image, JOURNAL_INVALID

(* If some sector stops the scan, there is a first one.                    *)
LEMMA FirstStopExists ==
  ASSUME NEW f \in Image, NEW k \in Sector, StopsAt(f, k)
  PROVE  IsFirstStop(f, FirstStop(f))
<1>. USE FormatAssumption DEF Sector
<1> DEFINE stops == {i \in Sector : StopsAt(f, i)}
<1>1. stops \in SUBSET Nat /\ stops # {}
  OBVIOUS
<1>2. PICK i \in stops : \A j \in stops : i <= j
  BY <1>1, NatMin
<1>3. \A j \in 0 .. i - 1 : j \in Sector /\ ~(i <= j)
  BY <1>2
<1>4. \A j \in 0 .. i - 1 : ~StopsAt(f, j)
  BY <1>2, <1>3
<1>5. IsFirstStop(f, i)
  BY <1>2, <1>4 DEF IsFirstStop
<1>. QED BY <1>2, <1>5 DEF FirstStop

(* There are more sectors than blocks: unless the scan leaves its tables,  *)
(* it meets an unsigned sector or a second copy of some block.             *)
LEMMA ScanStops ==
  ASSUME NEW f \in Image, ~ScanOutOfBounds(f)
  PROVE  \E i \in Sector : StopsAt(f, i)
<1> SUFFICES ASSUME \A i \in Sector : ~StopsAt(f, i)
             PROVE  FALSE
  OBVIOUS
<1>. USE FormatAssumption DEF Sector, Block, BLOCK_TOTAL, NoBlock
<1>1. \A i \in Sector : f[i].sig /\ f[i].block # NoBlock
  BY DEF StopsAt, ScanOutOfBounds
<1> DEFINE blockOf == [i \in Sector |-> f[i].block]
<1>2. blockOf \in [Sector -> Block]
  BY <1>1 DEF Image
<1>3. /\ IsFiniteSet(Sector) /\ IsFiniteSet(Block)
      /\ Cardinality(Sector) = SECTOR_COUNT
      /\ Cardinality(Block) = SECTOR_COUNT - 1
  BY FS_Interval
<1>4. PICK x \in Sector, y \in Sector : x # y /\ blockOf[x] = blockOf[y]
  <2>1. Cardinality(Block) < Cardinality(Sector)
    BY <1>3
  <2> HIDE DEF blockOf
  <2>. QED BY <1>2, <1>3, <2>1, FS_PigeonHole
<1>5. f[x].block = f[y].block
  BY <1>4
<1>6. CASE x < y
  BY <1>5, <1>6 DEF StopsAt
<1>7. CASE y < x
  BY <1>5, <1>7 DEF StopsAt
<1>. QED BY <1>4, <1>6, <1>7

(* find_empty_sector returns a sector, and never the newest copy of a      *)
(* block: the reserved sector and the journal are enough to write without  *)
(* overwriting what readers see.                                           *)
LEMMA EmptySectorIsExpendable ==
  ASSUME NEW f \in Image, ~ScanOutOfBounds(f),
         \A b \in Block : \A s, t \in Copies(f, b) :
           f[s].rev = f[t].rev => s = t
  PROVE  /\ find_empty_sector(f) \in Sector
         /\ find_empty_sector(f) # SECTOR_INVALID
         /\ \A b \in Block : ~IsNewest(f, b, find_empty_sector(f))
<1>. USE FormatAssumption
<1> DEFINE i == FirstStop(f)
           j == CHOOSE k \in 0 .. i - 1 : f[k].block = f[i].block
<1>1. IsFirstStop(f, i)
  BY ScanStops, FirstStopExists
<1>2. i \in Sector /\ StopsAt(f, i) /\ \A k \in 0 .. i - 1 : ~StopsAt(f, k)
  BY <1>1 DEF IsFirstStop
<1>3. find_empty_sector(f) =
        IF ~f[i].sig THEN i ELSE IF f[i].rev < f[j].rev THEN j ELSE i
  BY <1>2 DEF find_empty_sector
<1>4. \A s \in Sector : f[s].rev \in 0 .. JOURNAL_INVALID
  BY DEF Image
<1> HIDE DEF i
<1>5. CASE ~f[i].sig
  BY <1>2, <1>3, <1>5 DEF IsNewest, Copies, Sector, SECTOR_INVALID
<1>6. CASE f[i].sig
  <2>1. \E k \in 0 .. i - 1 : f[k].block = f[i].block
    BY <1>2, <1>6 DEF StopsAt
  <2>2. j \in 0 .. i - 1 /\ f[j].block = f[i].block
    BY <2>1
  <2> HIDE DEF j
  <2>3. j \in Sector /\ i # j
    BY <1>2, <2>2 DEF Sector
  <2>4. f[j].sig
    BY <1>2, <2>2 DEF StopsAt
  <2>5. CASE f[i].rev < f[j].rev
    <3>1. find_empty_sector(f) = j
      BY <1>3, <1>6, <2>5
    <3>2. \A b \in Block : ~IsNewest(f, b, j)
      BY <1>2, <1>4, <1>6, <2>2, <2>3, <2>5
         DEF IsNewest, Copies, JOURNAL_INVALID
    <3>. QED BY <2>3, <3>1, <3>2 DEF Sector, SECTOR_INVALID
  <2>6. CASE ~(f[i].rev < f[j].rev)
    <3>1. find_empty_sector(f) = i
      BY <1>3, <1>6, <2>6
    <3>2. ASSUME NEW b \in Block, IsNewest(f, b, i)
          PROVE  FALSE
      <4>1. i \in Copies(f, b)
        BY <3>2 DEF IsNewest
      <4>2. j \in Copies(f, b)
        BY <1>2, <1>4, <2>2, <2>3, <2>4, <2>6, <4>1 DEF Copies, JOURNAL_INVALID
      <4>3. f[i].rev = f[j].rev
        BY <1>2, <1>4, <2>3, <2>6, <3>2, <4>2 DEF IsNewest, JOURNAL_INVALID
      <4>. QED BY <2>3, <4>1, <4>2, <4>3
    <3>. QED BY <1>2, <3>1, <3>2 DEF Sector, SECTOR_INVALID
  <2>. QED BY <2>5, <2>6
<1>. QED BY <1>2, <1>5, <1>6 DEF Image

-----------------------------------------------------------------------------
(* A patch sets a contiguous range of words: what is copied before it and  *)
(* what is copied after it completes the sector.                           *)
LEMMA PatchFacts ==
  ASSUME NEW p \in Patch \cup {NoPatch}
  PROVE  /\ DOMAIN p \subseteq Word
         /\ \A w \in DOMAIN p : p[w] \in Value
         /\ p \in Patch =>
              /\ DOMAIN p # {}
              /\ \A w \in Word : \/ w \in DOMAIN p
                                 \/ \A v \in DOMAIN p : w < v
                                 \/ \A v \in DOMAIN p : w > v
<1>1. CASE p = NoPatch
  <2>1. DOMAIN p = {}
    BY <1>1 DEF NoPatch
  <2>2. ASSUME NEW S \in {[R -> Value] : R \in WordRange}, p \in S
        PROVE  FALSE
    <3>1. PICK R \in WordRange : S = [R -> Value]
      BY <2>2
    <3>2. p \in [R -> Value]
      BY <2>2, <3>1
    <3>3. DOMAIN p = R
      BY <3>2
    <3>. QED BY <2>1, <3>3 DEF WordRange
  <2>3. p \notin Patch
    BY <2>2 DEF Patch
  <2>. QED BY <2>1, <2>3
<1>2. CASE p \in Patch
  <2>1. PICK S \in {[R -> Value] : R \in WordRange} : p \in S
    BY <1>2 DEF Patch
  <2>2. PICK R \in WordRange : S = [R -> Value]
    BY <2>1
  <2>3. p \in [R -> Value]
    BY <2>1, <2>2
  <2>4. PICK lo \in Word, hi \in Word : R = lo .. hi /\ R # {}
    BY DEF WordRange
  <2>5. DOMAIN p = lo .. hi /\ lo <= hi /\ \A w \in DOMAIN p : p[w] \in Value
    BY <2>3, <2>4 DEF Word
  <2>. QED BY <2>5, FormatAssumption DEF Word
<1>. QED BY <1>1, <1>2

-----------------------------------------------------------------------------
(* What an erase, a header and data words do to the copies of a block.     *)

LEMMA EraseShrinks ==
  ASSUME NEW f \in Image, NEW s \in Sector
  PROVE  LET g == EraseSector(f, s)
         IN  /\ g \in Image
             /\ g[s] = Erased
             /\ \A t \in Sector : t # s => g[t] = f[t]
             /\ \A b \in Block : Copies(g, b) = Copies(f, b) \ {s}
<1> DEFINE g == EraseSector(f, s)
<1>1. /\ NoBlock \notin Block
      /\ Erased \in [sig   : BOOLEAN,
                     block : Block \cup {NoBlock},
                     rev   : 0 .. JOURNAL_INVALID,
                     data  : Data]
      /\ ~Erased.sig
  BY FormatAssumption
     DEF Erased, JOURNAL_INVALID, NoBlock, Block, BLOCK_TOTAL, Data, BlankData
<1>2. g \in Image
  BY <1>1 DEF EraseSector, Image
<1>3. g[s] = Erased /\ \A t \in Sector : t # s => g[t] = f[t]
  BY DEF EraseSector, Image
<1>4. ASSUME NEW b \in Block
      PROVE  Copies(g, b) = Copies(f, b) \ {s}
  BY <1>1, <1>3 DEF Copies
<1>. QED BY <1>2, <1>3, <1>4

(* Removing a sector that is not the newest copy of a block leaves the     *)
(* newest one newest.                                                      *)
LEMMA EraseKeepsNewest ==
  ASSUME NEW f \in Image, NEW s \in Sector, NEW b \in Block, NEW t,
         t # s, IsNewest(f, b, t)
  PROVE  IsNewest(EraseSector(f, s), b, t)
BY EraseShrinks DEF IsNewest, Copies

(* Programming data words changes no header.                               *)
LEMMA WordsKeepHeaders ==
  ASSUME NEW f \in Image, NEW s \in Sector, NEW W, NEW d,
         \A w \in W \cap Word : d[w] \in Value
  PROVE  LET g == ProgramWords(f, s, W, d)
         IN  /\ g \in Image
             /\ \A t \in Sector : t # s => g[t] = f[t]
             /\ \A t \in Sector : /\ g[t].sig = f[t].sig
                                  /\ g[t].block = f[t].block
                                  /\ g[t].rev = f[t].rev
             /\ \A w \in Word : g[s].data[w] = IF w \in W THEN d[w] ELSE f[s].data[w]
             /\ \A b : Copies(g, b) = Copies(f, b)
             /\ \A b, t : IsNewest(g, b, t) <=> IsNewest(f, b, t)
<1> DEFINE g == ProgramWords(f, s, W, d)
           e == [w \in Word |-> IF w \in W THEN d[w] ELSE f[s].data[w]]
<1>1. e \in Data
  BY DEF Image, Data
<1>2. g = [f EXCEPT ![s].data = e]
  BY DEF ProgramWords
<1>. HIDE DEF e
<1>3. g \in Image
  BY <1>1, <1>2 DEF Image
<1>4. \A t \in Sector : t # s => g[t] = f[t]
  BY <1>2 DEF Image
<1>5. g[s].sig = f[s].sig /\ g[s].block = f[s].block /\ g[s].rev = f[s].rev
      /\ g[s].data = e
  BY <1>2 DEF Image
<1>6. \A t \in Sector : g[t].sig = f[t].sig /\ g[t].block = f[t].block
                        /\ g[t].rev = f[t].rev
  BY <1>4, <1>5
<1>7. \A b : Copies(g, b) = Copies(f, b)
  BY <1>6 DEF Copies
<1>8. \A b, t : IsNewest(g, b, t) <=> IsNewest(f, b, t)
  BY <1>6, <1>7 DEF IsNewest, Copies
<1>. QED BY <1>3, <1>4, <1>5, <1>6, <1>7, <1>8 DEF e

(* A header programmed in an erased sector makes it the newest copy of its *)
(* block, if its revision precedes those of the other copies.              *)
LEMMA HeaderBecomesNewest ==
  ASSUME NEW f \in Image, NEW s \in Sector, NEW b \in Block,
         NEW r \in 0 .. JOURNAL_YOUNGEST,
         f[s] = Erased,
         \A t \in Copies(f, b) : r < f[t].rev
  PROVE  LET g == ProgramHeader(f, s, b, r)
         IN  /\ g \in Image
             /\ g[s].data = BlankData
             /\ \A t \in Sector : t # s => g[t] = f[t]
             /\ g[s].rev = r
             /\ Copies(g, b) = Copies(f, b) \cup {s}
             /\ s \notin Copies(f, b)
             /\ \A c \in Block : c # b => Copies(g, c) = Copies(f, c)
             /\ IsNewest(g, b, s)
<1> DEFINE g == ProgramHeader(f, s, b, r)
<1>. USE FormatAssumption
<1> DEFINE h == [sig |-> TRUE, block |-> b, rev |-> r, data |-> f[s].data]
<1>a. h \in [sig   : BOOLEAN,
             block : Block \cup {NoBlock},
             rev   : 0 .. JOURNAL_INVALID,
             data  : Data]
  BY DEF Image, JOURNAL_INVALID
<1>1. g = [f EXCEPT ![s] = h]
  BY DEF ProgramHeader
<1>. HIDE DEF h
<1>2. g \in Image
  BY <1>1, <1>a DEF Image
<1>3. \A t \in Sector : t # s => g[t] = f[t]
  BY <1>1 DEF Image
<1>4. g[s].sig /\ g[s].block = b /\ g[s].rev = r /\ g[s].data = BlankData
  BY <1>1 DEF Image, Erased, h
<1>. HIDE DEF g
<1>5. ~f[s].sig
  BY DEF Erased
<1>6. s \notin Copies(f, b) /\ \A c : s \notin Copies(f, c)
  BY <1>5 DEF Copies
<1>7. Copies(g, b) = Copies(f, b) \cup {s}
  BY <1>3, <1>4, <1>6 DEF Copies
<1>8. \A c \in Block : c # b => Copies(g, c) = Copies(f, c)
  BY <1>3, <1>4, <1>6 DEF Copies
<1>9. ASSUME NEW t \in Copies(g, b)
      PROVE  g[s].rev < g[t].rev \/ (g[s].rev = g[t].rev /\ t <= s)
  <2>1. CASE t = s
    BY <2>1, <1>4 DEF Sector
  <2>2. CASE t # s
    <3>1. t \in Copies(f, b) /\ t \in Sector
      BY <2>2, <1>7 DEF Copies
    <3>. QED BY <3>1, <2>2, <1>3, <1>4
  <2>. QED BY <2>1, <2>2
<1>10. IsNewest(g, b, s)
  BY <1>7, <1>9 DEF IsNewest
<1>. QED BY <1>2, <1>3, <1>4, <1>6, <1>7, <1>8, <1>10 DEF g

-----------------------------------------------------------------------------
(* The inductive invariant.  The safety of an erase rests on the copies    *)
(* having distinct revisions, which rests on where a call stands: that a   *)
(* copy is made of the newest sector, and nothing was written in between.  *)

IInv == TypeOK /\ PhaseInv /\ EraseIsSafe /\ RevisionsDistinct /\ NoAssertionFails

LEMMA InitIInv == Init => IInv
<1> SUFFICES ASSUME Init PROVE IInv
  OBVIOUS
<1>. USE FormatAssumption
<1>1. Erased \in [sig   : BOOLEAN,
                  block : Block \cup {NoBlock},
                  rev   : 0 .. JOURNAL_INVALID,
                  data  : Data]
  BY DEF Erased, JOURNAL_INVALID, NoBlock, Block, BLOCK_TOTAL, Data, BlankData
<1>2. TypeOK
  BY <1>1 DEF Init, TypeOK, Image, Phase, Block, BLOCK_TOTAL, Sector
<1>3. PhaseInv /\ EraseIsSafe /\ NoAssertionFails
  BY DEF Init, PhaseInv, EraseIsSafe, NoAssertionFails
<1>4. RevisionsDistinct
  <2>1. \A s \in Sector : ~sector[s].sig
    BY DEF Init, Erased
  <2>. QED BY <2>1 DEF RevisionsDistinct, Copies
<1>. QED BY <1>2, <1>3, <1>4 DEF IInv

(* A call that needs a sector gets one it may erase, or strays.            *)
LEMMA TakeEmptySectorStep ==
  ASSUME IInv, NEW b, NEW p, NEW from, TakeEmptySector(b, p, from)
  PROVE  \/ pc' = "undefined" /\ UNCHANGED <<block, patch, src, dest>>
         \/ /\ pc' = "erase"
            /\ block' = b /\ patch' = p /\ src' = from
            /\ dest' = find_empty_sector(sector)
            /\ dest' \in Sector
            /\ \A c \in Block : ~IsNewest(sector, c, dest')
<1>1. CASE ScanOutOfBounds(sector)
  BY <1>1 DEF TakeEmptySector
<1>2. CASE ~ScanOutOfBounds(sector)
  <2>1. sector \in Image
    BY DEF IInv, TypeOK
  <2>2. /\ find_empty_sector(sector) \in Sector
        /\ find_empty_sector(sector) # SECTOR_INVALID
        /\ \A c \in Block : ~IsNewest(sector, c, find_empty_sector(sector))
    BY <1>2, <2>1, EmptySectorIsExpendable DEF IInv, RevisionsDistinct
  <2>. QED BY <1>2, <2>2 DEF TakeEmptySector
<1>. QED BY <1>1, <1>2

(* The beginning of a call.                                                *)
LEMMA CallKeepsIInv ==
  ASSUME IInv, NEW b \in Block, NEW p \in Patch \cup {NoPatch},
         \/ Allocate(b, p)
         \/ p \in Patch /\ (PatchInPlace(b, p) \/ PatchIntoCopy(b, p)
                            \/ JournalOver(b, p))
  PROVE  IInv'
<1>. USE FormatAssumption
<1>1. sector \in Image /\ TypeOK /\ RevisionsDistinct
  BY DEF IInv, TypeOK
<1>2. Allocated(sector, b) => /\ IsNewest(sector, b, Newest(sector, b))
                              /\ Newest(sector, b) \in Sector
  BY <1>1, NewestExists DEF IsNewest, Copies
<1>3. ASSUME pc' = "undefined", UNCHANGED <<sector, block, patch, src, dest>>
      PROVE  IInv'
  <2>1. TypeOK'
    BY <1>1, <1>3 DEF TypeOK, Phase
  <2>2. PhaseInv'
    BY <1>3 DEF PhaseInv
  <2>3. EraseIsSafe' /\ RevisionsDistinct' /\ NoAssertionFails'
    BY <1>1, <1>3 DEF EraseIsSafe, RevisionsDistinct, NoAssertionFails
  <2>. QED BY <2>1, <2>2, <2>3 DEF IInv
<1>4. ASSUME sector' = sector, pc' = "erase", block' = b, patch' = p,
             src' \in Sector, dest' \in Sector,
             \A c \in Block : ~IsNewest(sector, c, dest'),
             IF src' = dest' THEN ~Allocated(sector, b)
             ELSE /\ IsNewest(sector, b, src')
                  /\ sector[src'].rev # 0
                  /\ p \in Patch
      PROVE  IInv'
  <2>1. TypeOK'
    BY <1>1, <1>4 DEF TypeOK, Phase
  <2>2. PhaseInv'
    BY <1>4 DEF PhaseInv, Fresh
  <2>3. EraseIsSafe' /\ RevisionsDistinct' /\ NoAssertionFails'
    BY <1>1, <1>4 DEF EraseIsSafe, RevisionsDistinct, NoAssertionFails
  <2>. QED BY <2>1, <2>2, <2>3 DEF IInv
<1>5. CASE Allocate(b, p)
  BY <1>3, <1>4, <1>5, TakeEmptySectorStep DEF Allocate
<1>6. CASE p \in Patch /\ PatchInPlace(b, p)
  <2>1. TypeOK'
    BY <1>1, <1>2, <1>6 DEF TypeOK, Phase, PatchInPlace
  <2>2. PhaseInv'
    BY <1>2, <1>6 DEF PhaseInv, PatchInPlace
  <2>3. EraseIsSafe' /\ RevisionsDistinct' /\ NoAssertionFails'
    BY <1>1, <1>6 DEF EraseIsSafe, RevisionsDistinct, NoAssertionFails, PatchInPlace
  <2>. QED BY <2>1, <2>2, <2>3 DEF IInv
<1>7. CASE p \in Patch /\ PatchIntoCopy(b, p)
  BY <1>2, <1>3, <1>4, <1>7, TakeEmptySectorStep DEF PatchIntoCopy
<1>8. CASE p \in Patch /\ JournalOver(b, p)
  <2>1. CASE UNCHANGED vars
    BY <2>1, Zenon DEF vars, IInv, TypeOK, PhaseInv, EraseIsSafe, RevisionsDistinct,
                NoAssertionFails, Fresh, Before, After
  <2>2. CASE TakeEmptySector(b, p, Newest(sector, b)) /\ UNCHANGED sector
             /\ (ScanOutOfBounds(sector) \/ find_empty_sector(sector) = SECTOR_INVALID)
    <3>1. ScanOutOfBounds(sector)
      BY <1>1, <2>2, EmptySectorIsExpendable DEF RevisionsDistinct
    <3>. QED BY <1>3, <2>2, <3>1 DEF TakeEmptySector
  <2>. QED BY <1>8, <2>1, <2>2 DEF JournalOver
<1>. QED BY <1>5, <1>6, <1>7, <1>8

(* Erasing a sector no reader finds.                                       *)
LEMMA EraseFacts ==
  ASSUME IInv, pc = "erase"
  PROVE  LET g == EraseSector(sector, dest)
         IN  /\ g \in Image
             /\ g[dest] = Erased
             /\ \A t \in Sector : t # dest => g[t] = sector[t]
             /\ \A b \in Block : Copies(g, b) = Copies(sector, b) \ {dest}
             /\ \A b \in Block, t \in Sector :
                  IsNewest(sector, b, t) => t # dest /\ IsNewest(g, b, t)
             /\ \A b \in Block : \A s, t \in Copies(g, b) :
                  g[s].rev = g[t].rev => s = t
<1> DEFINE g == EraseSector(sector, dest)
<1>1. sector \in Image /\ dest \in Sector
  BY DEF IInv, TypeOK
<1>2. /\ g \in Image
      /\ g[dest] = Erased
      /\ \A t \in Sector : t # dest => g[t] = sector[t]
      /\ \A b \in Block : Copies(g, b) = Copies(sector, b) \ {dest}
  BY <1>1, EraseShrinks
<1>3. \A b \in Block, t \in Sector :
        IsNewest(sector, b, t) => t # dest /\ IsNewest(g, b, t)
  BY <1>1, EraseKeepsNewest DEF IInv, EraseIsSafe
<1>. HIDE DEF g
<1>4. ASSUME NEW b \in Block, NEW s \in Copies(g, b), NEW t \in Copies(g, b),
             g[s].rev = g[t].rev
      PROVE  s = t
  <2>1. /\ s \in Copies(sector, b) /\ t \in Copies(sector, b)
        /\ g[s] = sector[s] /\ g[t] = sector[t]
    BY <1>2 DEF Copies
  <2>. QED BY <1>4, <2>1 DEF IInv, RevisionsDistinct
<1>. QED BY <1>2, <1>3, <1>4 DEF g

LEMMA EraseKeepsIInv == IInv /\ Erase => IInv'
<1> SUFFICES ASSUME IInv, Erase PROVE IInv'
  OBVIOUS
<1>1. pc = "erase" /\ pc' = "header" /\ sector' = EraseSector(sector, dest)
      /\ UNCHANGED <<block, patch, src, dest>>
  BY DEF Erase
<1>2. TypeOK
  BY DEF IInv
<1>3. /\ sector' \in Image
      /\ sector'[dest] = Erased
      /\ \A t \in Sector : t # dest => sector'[t] = sector[t]
      /\ \A b \in Block : Copies(sector', b) = Copies(sector, b) \ {dest}
      /\ \A b \in Block, t \in Sector :
           IsNewest(sector, b, t) => t # dest /\ IsNewest(sector', b, t)
      /\ \A b \in Block : \A s, t \in Copies(sector', b) :
           sector'[s].rev = sector'[t].rev => s = t
  BY <1>1, EraseFacts
<1>4. TypeOK'
  BY <1>1, <1>2, <1>3 DEF TypeOK, Phase
<1>5. IF Fresh THEN ~Allocated(sector, block)
      ELSE /\ IsNewest(sector, block, src)
           /\ sector[src].rev # 0
           /\ patch \in Patch
  BY <1>1 DEF IInv, PhaseInv
<1>6. CASE Fresh
  <2>1. ~Allocated(sector', block)
    BY <1>2, <1>3, <1>5, <1>6 DEF Allocated, TypeOK
  <2>. QED BY <1>1, <1>3, <1>4, <1>6, <2>1
           DEF IInv, PhaseInv, Fresh, EraseIsSafe, RevisionsDistinct, NoAssertionFails
<1>7. CASE ~Fresh
  <2>1. IsNewest(sector', block, src) /\ sector'[src] = sector[src]
    BY <1>2, <1>3, <1>5, <1>7 DEF TypeOK
  <2>. QED BY <1>1, <1>3, <1>4, <1>5, <1>7, <2>1
           DEF IInv, PhaseInv, Fresh, EraseIsSafe, RevisionsDistinct, NoAssertionFails
<1>. QED BY <1>6, <1>7

(* The new header makes the sector being written the newest copy.          *)
LEMMA HeaderFacts ==
  ASSUME IInv, pc = "header"
  PROVE  LET g == ProgramHeader(sector, dest, block, NewRevision)
         IN  /\ HeaderErased(sector, dest)
             /\ g \in Image
             /\ g[dest].data = BlankData
             /\ \A t \in Sector : t # dest => g[t] = sector[t]
             /\ dest \notin Copies(sector, block)
             /\ Copies(g, block) = Copies(sector, block) \cup {dest}
             /\ \A c \in Block : c # block => Copies(g, c) = Copies(sector, c)
             /\ IsNewest(g, block, dest)
             /\ \A b \in Block : \A s, t \in Copies(g, b) :
                  g[s].rev = g[t].rev => s = t
<1> DEFINE g == ProgramHeader(sector, dest, block, NewRevision)
<1>. USE FormatAssumption
<1>1. sector \in Image /\ dest \in Sector /\ src \in Sector /\ block \in Block
  BY DEF IInv, TypeOK
<1>2. sector[dest] = Erased
  BY DEF IInv, PhaseInv
<1>3. HeaderErased(sector, dest)
  BY <1>2 DEF HeaderErased, Erased
<1>4. IF Fresh THEN ~Allocated(sector, block)
      ELSE /\ IsNewest(sector, block, src)
           /\ sector[src].rev # 0
  BY DEF IInv, PhaseInv
<1>5. /\ NewRevision \in 0 .. JOURNAL_YOUNGEST
      /\ \A t \in Copies(sector, block) : NewRevision < sector[t].rev
  <2>1. CASE Fresh
    BY <2>1, <1>4 DEF NewRevision, Allocated
  <2>2. CASE ~Fresh
    <3>1. \A t \in Copies(sector, block) : /\ sector[src].rev <= sector[t].rev
                                           /\ sector[t].rev \in Nat
      BY <2>2, <1>1, <1>4 DEF IsNewest, Copies, Image, JOURNAL_INVALID
    <3>2. sector[src].rev \in 1 .. JOURNAL_YOUNGEST
      BY <2>2, <1>1, <1>4 DEF IsNewest, Copies, Image, JOURNAL_INVALID
    <3>. QED BY <2>2, <3>1, <3>2 DEF NewRevision
  <2>. QED BY <2>1, <2>2
<1>6. /\ g \in Image
      /\ g[dest].data = BlankData
      /\ \A t \in Sector : t # dest => g[t] = sector[t]
      /\ g[dest].rev = NewRevision
      /\ Copies(g, block) = Copies(sector, block) \cup {dest}
      /\ dest \notin Copies(sector, block)
      /\ \A c \in Block : c # block => Copies(g, c) = Copies(sector, c)
      /\ IsNewest(g, block, dest)
  BY <1>1, <1>2, <1>5, HeaderBecomesNewest
<1>. HIDE DEF g
<1>7. \A s \in Copies(sector, block) : g[s].rev # g[dest].rev
  BY <1>1, <1>5, <1>6 DEF Copies, Image
<1>8. \A b \in Block : \A s \in Copies(sector, b) : s \in Sector /\ s # dest
  BY <1>1, <1>2 DEF Copies, Erased
<1>9. ASSUME NEW b \in Block, NEW s \in Copies(g, b), NEW t \in Copies(g, b),
             g[s].rev = g[t].rev
      PROVE  s = t
  <2>1. CASE s \in Copies(sector, b) /\ t \in Copies(sector, b)
    BY <2>1, <1>6, <1>8, <1>9 DEF IInv, RevisionsDistinct
  <2>2. CASE ~(s \in Copies(sector, b) /\ t \in Copies(sector, b))
    BY <2>2, <1>6, <1>7, <1>9
  <2>. QED BY <2>1, <2>2
<1>. QED BY <1>3, <1>6, <1>9 DEF g

LEMMA WriteHeaderKeepsIInv == IInv /\ WriteHeader => IInv'
<1> SUFFICES ASSUME IInv, WriteHeader PROVE IInv'
  OBVIOUS
<1>1. pc = "header" /\ UNCHANGED <<block, patch, src, dest>>
  BY DEF WriteHeader
<1>2. TypeOK
  BY DEF IInv
<1>3. HeaderErased(sector, dest)
  BY <1>1, HeaderFacts
<1>4. /\ sector' = ProgramHeader(sector, dest, block, NewRevision)
      /\ pc' = IF Fresh THEN "in place" ELSE "prefix"
  BY <1>3 DEF WriteHeader
<1>5. /\ sector' \in Image
      /\ sector'[dest].data = BlankData
      /\ Copies(sector', block) = Copies(sector, block) \cup {dest}
      /\ IsNewest(sector', block, dest)
      /\ \A b \in Block : \A s, t \in Copies(sector', b) :
           sector'[s].rev = sector'[t].rev => s = t
  BY <1>1, <1>4, HeaderFacts
<1>6. TypeOK'
  BY <1>1, <1>2, <1>4, <1>5 DEF TypeOK, Phase
<1>7. EraseIsSafe' /\ RevisionsDistinct' /\ NoAssertionFails'
  BY <1>4, <1>5 DEF EraseIsSafe, RevisionsDistinct, NoAssertionFails
<1>8. PhaseInv'
  <2>1. \A W : W \subseteq Word => WordsErased(sector', dest, W)
    BY <1>5 DEF WordsErased, BlankData
  <2>2. CASE Fresh
    <3>1. DOMAIN patch \subseteq Word
      BY <1>2, PatchFacts DEF TypeOK
    <3>. QED BY <1>1, <1>4, <1>5, <2>1, <2>2, <3>1 DEF PhaseInv
  <2>3. CASE ~Fresh
    <3>1. IsNewest(sector, block, src) /\ patch \in Patch
      BY <1>1, <2>3 DEF IInv, PhaseInv
    <3>2. src # dest /\ src \in Copies(sector', block)
      BY <1>5, <2>3, <3>1 DEF Fresh, IsNewest
    <3>. QED BY <1>1, <1>4, <1>5, <2>1, <2>3, <3>1, <3>2 DEF PhaseInv
  <2>. QED BY <2>2, <2>3
<1>. QED BY <1>6, <1>7, <1>8 DEF IInv

(* A call returns, or the power fails or comes back: nothing is claimed.   *)
LEMMA ReturnKeepsIInv ==
  ASSUME Forget, pc' \in {"idle", "off"}, sector' \in Image,
         \A b \in Block : \A s, t \in Copies(sector', b) :
           sector'[s].rev = sector'[t].rev => s = t
  PROVE  IInv'
<1>1. 0 \in Block /\ 0 \in Sector
  BY FormatAssumption DEF Block, BLOCK_TOTAL, Sector
<1>2. /\ pc' \in {"idle", "off"}
      /\ block' = 0 /\ patch' = NoPatch /\ src' = 0 /\ dest' = 0
  BY DEF Forget
<1>3. TypeOK'
  BY <1>1, <1>2 DEF TypeOK, Phase
<1>4. PhaseInv' /\ EraseIsSafe' /\ NoAssertionFails'
  BY <1>2 DEF PhaseInv, EraseIsSafe, NoAssertionFails
<1>. QED BY <1>3, <1>4 DEF IInv, RevisionsDistinct

Programming == {"in place", "prefix", "patch", "tail"}

(* What programming data words of the newest copy leaves alone.            *)
LEMMA ProgramFacts ==
  ASSUME IInv, NEW W, NEW d, \A w \in W \cap Word : d[w] \in Value
  PROVE  LET g == ProgramWords(sector, dest, W, d)
         IN  /\ g \in Image
             /\ \A t \in Sector : t # dest => g[t] = sector[t]
             /\ \A t \in Sector : g[t].rev = sector[t].rev
             /\ \A w \in Word : g[dest].data[w] =
                                  IF w \in W THEN d[w] ELSE sector[dest].data[w]
             /\ \A b : Copies(g, b) = Copies(sector, b)
             /\ \A b, t : IsNewest(g, b, t) <=> IsNewest(sector, b, t)
             /\ \A b \in Block : \A s, t \in Copies(g, b) :
                  g[s].rev = g[t].rev => s = t
<1> DEFINE g == ProgramWords(sector, dest, W, d)
<1>1. sector \in Image /\ dest \in Sector
  BY DEF IInv, TypeOK
<1>2. /\ g \in Image
      /\ \A t \in Sector : t # dest => g[t] = sector[t]
      /\ \A t \in Sector : g[t].rev = sector[t].rev
      /\ \A w \in Word : g[dest].data[w] =
                           IF w \in W THEN d[w] ELSE sector[dest].data[w]
      /\ \A b : Copies(g, b) = Copies(sector, b)
      /\ \A b, t : IsNewest(g, b, t) <=> IsNewest(sector, b, t)
  BY <1>1, WordsKeepHeaders
<1>. HIDE DEF g
<1>3. \A b \in Block : \A s, t \in Copies(g, b) :
        g[s].rev = g[t].rev => s = t
  BY <1>2 DEF IInv, RevisionsDistinct, Copies
<1>. QED BY <1>2, <1>3 DEF g

(* The data a call programs are values.                                    *)
LEMMA DataFacts ==
  ASSUME IInv
  PROVE  /\ \A w \in Word : sector[src].data[w] \in Value
         /\ \A w \in DOMAIN patch : patch[w] \in Value
BY PatchFacts DEF IInv, TypeOK, Image, Data

LEMMA ProgramInPlaceKeepsIInv == IInv /\ ProgramInPlace => IInv'
<1> SUFFICES ASSUME IInv, ProgramInPlace PROVE IInv'
  OBVIOUS
<1>1. WordsErased(sector, dest, DOMAIN patch)
  BY DEF IInv, PhaseInv, ProgramInPlace
<1>2. Return /\ sector' = ProgramWords(sector, dest, DOMAIN patch, patch)
  BY <1>1 DEF ProgramInPlace, Program, ProgramFails
<1>. QED BY <1>2, ProgramFacts, DataFacts, ReturnKeepsIInv DEF Return

(* From one phase of a copy to the next.                                   *)
LEMMA CopyPhaseKeepsIInv ==
  ASSUME IInv, pc \in {"prefix", "patch"}, pc' \in {"patch", "tail"},
         UNCHANGED <<block, patch, src, dest>>,
         NEW W, NEW d, \A w \in W \cap Word : d[w] \in Value,
         sector' = ProgramWords(sector, dest, W, d),
         pc' = "patch" => WordsErased(sector', dest, Word \ Before),
         pc' = "tail" => /\ WordsErased(sector', dest, After)
                         /\ \A w \in DOMAIN patch : sector'[dest].data[w] = patch[w],
         \A w \in Before : sector'[dest].data[w] = sector[src].data[w]
  PROVE  IInv'
<1>1. TypeOK /\ RevisionsDistinct
  BY DEF IInv
<1>2. /\ sector' \in Image
      /\ \A t \in Sector : t # dest => sector'[t] = sector[t]
      /\ \A b : Copies(sector', b) = Copies(sector, b)
      /\ \A b, t : IsNewest(sector', b, t) <=> IsNewest(sector, b, t)
      /\ \A b \in Block : \A s, t \in Copies(sector', b) :
           sector'[s].rev = sector'[t].rev => s = t
  BY ProgramFacts
<1>3. TypeOK'
  BY <1>1, <1>2 DEF TypeOK, Phase
<1>4. /\ IsNewest(sector, block, dest)
      /\ src # dest /\ src \in Copies(sector, block) /\ patch \in Patch
  BY DEF IInv, PhaseInv
<1>5. sector'[src] = sector[src]
  BY <1>1, <1>2, <1>4 DEF TypeOK
<1>6. PhaseInv'
  BY <1>2, <1>4, <1>5 DEF PhaseInv, Before, After
<1>7. EraseIsSafe' /\ NoAssertionFails' /\ RevisionsDistinct'
  BY <1>2 DEF EraseIsSafe, NoAssertionFails, RevisionsDistinct
<1>. QED BY <1>3, <1>6, <1>7 DEF IInv

LEMMA CopyPrefixKeepsIInv == IInv /\ CopyPrefix => IInv'
<1> SUFFICES ASSUME IInv, CopyPrefix PROVE IInv'
  OBVIOUS
<1>1. pc = "prefix" /\ WordsErased(sector, dest, Word)
  BY DEF IInv, PhaseInv, CopyPrefix
<1>2. WordsErased(sector, dest, Before)
  BY <1>1 DEF WordsErased, Before
<1>3. /\ pc' = "patch" /\ UNCHANGED <<block, patch, src, dest>>
      /\ sector' = ProgramWords(sector, dest, Before, sector[src].data)
  BY <1>2 DEF CopyPrefix, Program, ProgramFails
<1>4. \A w \in Before \cap Word : sector[src].data[w] \in Value
  BY DataFacts
<1>5. \A w \in Word : sector'[dest].data[w] =
        IF w \in Before THEN sector[src].data[w] ELSE sector[dest].data[w]
  BY <1>3, <1>4, ProgramFacts
<1>6. WordsErased(sector', dest, Word \ Before)
  BY <1>1, <1>5 DEF WordsErased
<1>7. \A w \in Before : sector'[dest].data[w] = sector[src].data[w]
  BY <1>5 DEF Before
<1>. QED BY <1>1, <1>3, <1>4, <1>6, <1>7, CopyPhaseKeepsIInv

LEMMA ProgramPatchKeepsIInv == IInv /\ ProgramPatch => IInv'
<1> SUFFICES ASSUME IInv, ProgramPatch PROVE IInv'
  OBVIOUS
<1>1. /\ pc = "patch" /\ WordsErased(sector, dest, Word \ Before) /\ patch \in Patch
      /\ \A w \in Before : sector[dest].data[w] = sector[src].data[w]
  BY DEF IInv, PhaseInv, ProgramPatch
<1>2. DOMAIN patch \subseteq Word /\ DOMAIN patch # {}
  BY <1>1, PatchFacts
<1>3. /\ \A w \in DOMAIN patch : w \notin Before /\ w \notin After
      /\ \A w \in After : w \in Word /\ w \notin Before
  BY <1>2 DEF Before, After, Word
<1>4. WordsErased(sector, dest, DOMAIN patch)
  BY <1>1, <1>2, <1>3 DEF WordsErased
<1>5. /\ pc' = "tail" /\ UNCHANGED <<block, patch, src, dest>>
      /\ sector' = ProgramWords(sector, dest, DOMAIN patch, patch)
  BY <1>4 DEF ProgramPatch, Program, ProgramFails
<1>6. \A w \in DOMAIN patch \cap Word : patch[w] \in Value
  BY DataFacts
<1>7. \A w \in Word : sector'[dest].data[w] =
        IF w \in DOMAIN patch THEN patch[w] ELSE sector[dest].data[w]
  BY <1>5, <1>6, ProgramFacts
<1>8. /\ WordsErased(sector', dest, After)
      /\ \A w \in DOMAIN patch : sector'[dest].data[w] = patch[w]
      /\ \A w \in Before : sector'[dest].data[w] = sector[src].data[w]
  BY <1>1, <1>2, <1>3, <1>7 DEF WordsErased, Before
<1>. QED BY <1>1, <1>5, <1>6, <1>8, CopyPhaseKeepsIInv

LEMMA CopyTailKeepsIInv == IInv /\ CopyTail => IInv'
<1> SUFFICES ASSUME IInv, CopyTail PROVE IInv'
  OBVIOUS
<1>1. WordsErased(sector, dest, After)
  BY DEF IInv, PhaseInv, CopyTail
<1>2. Return /\ sector' = ProgramWords(sector, dest, After, sector[src].data)
  BY <1>1 DEF CopyTail, Program, ProgramFails
<1>3. \A w \in After \cap Word : sector[src].data[w] \in Value
  BY DataFacts
<1>. QED BY <1>2, <1>3, ProgramFacts, ReturnKeepsIInv DEF Return

(* A header cut off before its revision makes no copy.                     *)
LEMMA TornHeaderFacts ==
  ASSUME IInv, pc = "header", NEW b \in {NoBlock, block}
  PROVE  LET g == ProgramHeader(sector, dest, b, JOURNAL_INVALID)
         IN  /\ g \in Image
             /\ \A t \in Sector : t # dest => g[t] = sector[t]
             /\ \A c \in Block : Copies(g, c) = Copies(sector, c)
<1> DEFINE h == [sig |-> TRUE, block |-> b, rev |-> JOURNAL_INVALID,
                 data |-> sector[dest].data]
           g == [sector EXCEPT ![dest] = h]
<1>1. sector \in Image /\ dest \in Sector /\ block \in Block
  BY DEF IInv, TypeOK
<1>2. h \in [sig   : BOOLEAN,
             block : Block \cup {NoBlock},
             rev   : 0 .. JOURNAL_INVALID,
             data  : Data]
  BY <1>1, FormatAssumption DEF Image, JOURNAL_INVALID
<1>3. ~(h.rev <= JOURNAL_YOUNGEST) /\ ~sector[dest].sig
  BY FormatAssumption DEF JOURNAL_INVALID, IInv, PhaseInv, Erased
<1>. HIDE DEF h
<1>4. g \in Image /\ g[dest] = h /\ \A t \in Sector : t # dest => g[t] = sector[t]
  BY <1>1, <1>2 DEF Image
<1>5. \A c \in Block : Copies(g, c) = Copies(sector, c)
  BY <1>3, <1>4 DEF Copies
<1>6. ProgramHeader(sector, dest, b, JOURNAL_INVALID) = g
  BY DEF ProgramHeader, h
<1>. QED BY <1>4, <1>5, <1>6

(* An interrupted programming of words is a programming of fewer words.    *)
LEMMA TornWordsFacts ==
  ASSUME NEW W, NEW d, sector' \in TornWords(W, d)
  PROVE  \E V \in SUBSET W : sector' = ProgramWords(sector, dest, V, d)
BY DEF TornWords

LEMMA PowerLossKeepsIInv == IInv /\ PowerLoss => IInv'
<1> SUFFICES ASSUME IInv, PowerLoss
             PROVE  /\ sector' \in Image
                    /\ \A b \in Block : \A s, t \in Copies(sector', b) :
                         sector'[s].rev = sector'[t].rev => s = t
  BY ReturnKeepsIInv DEF PowerLoss
<1>1. /\ sector \in Image
      /\ \A b \in Block : \A s, t \in Copies(sector, b) :
           sector[s].rev = sector[t].rev => s = t
  BY DEF IInv, TypeOK, RevisionsDistinct
<1>2. CASE pc = "erase" /\ sector' \in {sector, EraseSector(sector, dest)}
  BY <1>1, <1>2, EraseFacts
<1>3. CASE pc = "header" /\ sector' \in TornHeader
  <2>1. CASE sector' = sector
    BY <1>1, <2>1
  <2>2. ASSUME NEW b \in {NoBlock, block},
               sector' = ProgramHeader(sector, dest, b, JOURNAL_INVALID)
        PROVE  /\ sector' \in Image
               /\ \A c \in Block : \A s, t \in Copies(sector', c) :
                    sector'[s].rev = sector'[t].rev => s = t
    <3>1. /\ sector' \in Image
          /\ \A t \in Sector : t # dest => sector'[t] = sector[t]
          /\ \A c \in Block : Copies(sector', c) = Copies(sector, c)
      BY <1>3, <2>2, TornHeaderFacts
    <3>2. \A c \in Block : \A s \in Copies(sector, c) : s \in Sector /\ s # dest
      BY <1>3 DEF IInv, PhaseInv, Erased, Copies
    <3>. QED BY <1>1, <3>1, <3>2
  <2>3. CASE sector' = ProgramHeader(sector, dest, block, NewRevision)
    BY <1>3, <2>3, HeaderFacts
  <2>. QED BY <1>3, <2>1, <2>2, <2>3 DEF TornHeader
<1>4. ASSUME NEW W, NEW d, \A w \in W \cap Word : d[w] \in Value,
             sector' \in TornWords(W, d)
      PROVE  /\ sector' \in Image
             /\ \A b \in Block : \A s, t \in Copies(sector', b) :
                  sector'[s].rev = sector'[t].rev => s = t
  <2>1. PICK V \in SUBSET W : sector' = ProgramWords(sector, dest, V, d)
    BY <1>4, TornWordsFacts
  <2>2. \A w \in V \cap Word : d[w] \in Value
    BY <1>4
  <2>. QED BY <2>1, <2>2, ProgramFacts
<1>5. CASE \/ pc = "in place" /\ sector' \in TornWords(DOMAIN patch, patch)
           \/ pc = "prefix"   /\ sector' \in TornWords(Before, sector[src].data)
           \/ pc = "patch"    /\ sector' \in TornWords(DOMAIN patch, patch)
           \/ pc = "tail"     /\ sector' \in TornWords(After, sector[src].data)
  <2>1. /\ \A w \in Before \cap Word : sector[src].data[w] \in Value
        /\ \A w \in After \cap Word : sector[src].data[w] \in Value
        /\ \A w \in DOMAIN patch \cap Word : patch[w] \in Value
    BY DataFacts
  <2>. QED BY <1>4, <1>5, <2>1
<1>. QED BY <1>2, <1>3, <1>5 DEF PowerLoss

LEMMA RestartKeepsIInv == IInv /\ Restart => IInv'
BY Zenon DEF Restart, IInv, TypeOK, PhaseInv, EraseIsSafe, RevisionsDistinct,
             NoAssertionFails, Phase

LEMMA StutterKeepsIInv == IInv /\ UNCHANGED vars => IInv'
BY Zenon DEF vars, IInv, TypeOK, PhaseInv, EraseIsSafe, RevisionsDistinct,
             NoAssertionFails, Fresh, Before, After

LEMMA NextKeepsIInv == IInv /\ [Next]_vars => IInv'
<1> SUFFICES ASSUME IInv, [Next]_vars PROVE IInv'
  OBVIOUS
<1>1. ASSUME NEW b \in Block, storageGetData(b) PROVE IInv'
  BY <1>1, CallKeepsIInv DEF storageGetData
<1>2. ASSUME NEW b \in Block, NEW p \in Patch, storagePatchData(b, p) PROVE IInv'
  BY <1>2, CallKeepsIInv DEF storagePatchData
<1>3. CASE Erase
  BY <1>3, EraseKeepsIInv
<1>4. CASE WriteHeader
  BY <1>4, WriteHeaderKeepsIInv
<1>5. CASE ProgramInPlace
  BY <1>5, ProgramInPlaceKeepsIInv
<1>6. CASE CopyPrefix
  BY <1>6, CopyPrefixKeepsIInv
<1>7. CASE ProgramPatch
  BY <1>7, ProgramPatchKeepsIInv
<1>8. CASE CopyTail
  BY <1>8, CopyTailKeepsIInv
<1>9. CASE PowerLoss
  BY <1>9, PowerLossKeepsIInv
<1>10. CASE UNCHANGED vars
  BY <1>10, StutterKeepsIInv
<1>11. CASE Restart
  BY <1>11, RestartKeepsIInv
<1>. QED BY <1>1, <1>2, <1>3, <1>4, <1>5, <1>6, <1>7, <1>8, <1>9, <1>10, <1>11 DEF Next

THEOREM Invariant == Spec => []IInv
<1>. QED BY InitIInv, NextKeepsIInv, PTL DEF Spec

-----------------------------------------------------------------------------
(* What the invariant is for.                                              *)

(* Type correctness.                                                       *)
THEOREM TypeCorrect == Spec => []TypeOK
<1>1. IInv => TypeOK
  BY DEF IInv
<1>. QED BY <1>1, Invariant, PTL

(* storage.c never erases a sector that is the newest copy of a block.     *)
THEOREM ErasesAreSafe == Spec => []EraseIsSafe
<1>1. IInv => EraseIsSafe
  BY DEF IInv
<1>. QED BY <1>1, Invariant, PTL

(* Which copy of a block is current never depends on where the copies lie. *)
THEOREM RevisionsStayDistinct == Spec => []RevisionsDistinct
<1>1. IInv => RevisionsDistinct
  BY DEF IInv
<1>. QED BY <1>1, Invariant, PTL

(* No assertion of storage.c fails while one thread uses it, whatever the  *)
(* power did before.                                                       *)
THEOREM AssertionsHold == Spec => []NoAssertionFails
<1>1. IInv => NoAssertionFails
  BY DEF IInv
<1>. QED BY <1>1, Invariant, PTL

-----------------------------------------------------------------------------
(* No block goes back to an older copy.                                    *)

(* All a step can do to the flash.                                         *)
LEMMA StepWrites ==
  ASSUME IInv, [Next]_vars
  PROVE  \/ sector' = sector
         \/ pc = "erase" /\ sector' = EraseSector(sector, dest)
         \/ pc = "header" /\ sector' \in TornHeader
         \/ \E V, d : /\ \A w \in V \cap Word : d[w] \in Value
                      /\ sector' = ProgramWords(sector, dest, V, d)
<1>1. CASE \/ \E b \in Block : \/ storageGetData(b)
                               \/ \E p \in Patch : storagePatchData(b, p)
           \/ Restart
           \/ UNCHANGED vars
  BY <1>1 DEF Restart, storageGetData, storagePatchData, Allocate, PatchInPlace,
              PatchIntoCopy, JournalOver, vars
<1>2. CASE Erase
  BY <1>2 DEF Erase
<1>3. CASE WriteHeader
  BY <1>3 DEF WriteHeader, TornHeader
<1>4. /\ \A w \in Before \cap Word : sector[src].data[w] \in Value
      /\ \A w \in After \cap Word : sector[src].data[w] \in Value
      /\ \A w \in DOMAIN patch \cap Word : patch[w] \in Value
  BY DataFacts
<1>5. CASE ProgramInPlace \/ CopyPrefix \/ ProgramPatch \/ CopyTail
  BY <1>4, <1>5 DEF ProgramInPlace, CopyPrefix, ProgramPatch, CopyTail, Program,
                    ProgramFails
<1>6. CASE PowerLoss
  <2>1. ASSUME NEW W, NEW d, \A w \in W \cap Word : d[w] \in Value,
               sector' \in TornWords(W, d)
        PROVE  \E V, e : /\ \A w \in V \cap Word : e[w] \in Value
                         /\ sector' = ProgramWords(sector, dest, V, e)
    <3>1. PICK V \in SUBSET W : sector' = ProgramWords(sector, dest, V, d)
      BY <2>1, TornWordsFacts
    <3>2. \A w \in V \cap Word : d[w] \in Value
      BY <2>1
    <3>. QED BY <3>1, <3>2
  <2>. QED BY <1>4, <1>6, <2>1 DEF PowerLoss
<1>. QED BY <1>1, <1>2, <1>3, <1>5, <1>6 DEF Next

(* The newest copy of a block outlives every step.                         *)
LEMMA NewestSurvives ==
  ASSUME IInv, [Next]_vars, NEW b \in Block, NEW n, IsNewest(sector, b, n)
  PROVE  n \in Copies(sector', b) /\ sector'[n].rev = sector[n].rev
<1>1. n \in Copies(sector, b) /\ n \in Sector
  BY DEF IsNewest, Copies
<1>2. CASE sector' = sector
  BY <1>1, <1>2
<1>3. CASE pc = "erase" /\ sector' = EraseSector(sector, dest)
  BY <1>1, <1>3, EraseFacts
<1>4. CASE pc = "header" /\ sector' \in TornHeader
  <2>1. n # dest
    BY <1>1, <1>4 DEF IInv, PhaseInv, Erased, Copies
  <2>2. CASE \E c \in {NoBlock, block} :
               sector' = ProgramHeader(sector, dest, c, JOURNAL_INVALID)
    BY <1>1, <1>4, <2>1, <2>2, TornHeaderFacts
  <2>3. CASE sector' = ProgramHeader(sector, dest, block, NewRevision)
    BY <1>1, <1>4, <2>1, <2>3, HeaderFacts
  <2>. QED BY <1>2, <1>4, <2>2, <2>3 DEF TornHeader
<1>5. CASE \E V, d : /\ \A w \in V \cap Word : d[w] \in Value
                     /\ sector' = ProgramWords(sector, dest, V, d)
  BY <1>1, <1>5, ProgramFacts
<1>. QED BY <1>2, <1>3, <1>4, <1>5, StepWrites

(* A step leaves a block its newest copy or gives it a newer one.          *)
LEMMA NextKeepsBlocks ==
  ASSUME IInv, IInv', [Next]_vars, NEW b \in Block, Allocated(sector, b)
  PROVE  /\ Allocated(sector', b)
         /\ sector'[Newest(sector', b)].rev <= sector[Newest(sector, b)].rev
<1> DEFINE n == Newest(sector, b)
           m == Newest(sector', b)
<1>0. IsNewest(sector, b, n)
  BY NewestExists DEF IInv, TypeOK
<1>1. n \in Copies(sector', b) /\ sector'[n].rev = sector[n].rev
  BY <1>0, NewestSurvives
<1>2. Allocated(sector', b)
  BY <1>1 DEF Allocated
<1>3. sector' \in Image
  BY DEF IInv, TypeOK
<1>4. IsNewest(sector', b, m)
  BY <1>2, <1>3, NewestExists
<1>. HIDE DEF n, m
<1>5. sector'[m].rev <= sector'[n].rev
  BY <1>1, <1>3, <1>4, FormatAssumption DEF IsNewest, Copies, Image, JOURNAL_INVALID
<1>. QED BY <1>1, <1>2, <1>5 DEF n, m

(* A block that has data always has it, and never from an older copy than  *)
(* before, across every call and every power loss.                         *)
THEOREM NoRollBack == Spec => NeverRollsBack
<1>1. IInv /\ IInv' /\ [Next]_vars =>
        [\A b \in Block : Allocated(sector, b) =>
           /\ Allocated(sector', b)
           /\ sector'[Newest(sector', b)].rev <= sector[Newest(sector, b)].rev]_vars
  BY NextKeepsBlocks
<1>. QED BY <1>1, Invariant, PTL DEF Spec, NeverRollsBack
-----------------------------------------------------------------------------
(* Orfs implements BlockStore.  What readers find changes in two kinds of  *)
(* step only: the last programming of a call, which is the Commit of the   *)
(* store, and a power loss.                                                *)

(* What the newest copy holds is the content of the block.                 *)
LEMMA ContentOf ==
  ASSUME NEW f \in Image, NEW b \in Block
  PROVE  /\ \A s : IsNewest(f, b, s) => Content(f, b) = f[s].data
         /\ ~Allocated(f, b) => Content(f, b) = BlankData
         /\ Content(f, b) \in Data
<1>1. ASSUME NEW s, IsNewest(f, b, s)
      PROVE  Content(f, b) = f[s].data
  <2>1. Allocated(f, b)
    BY <1>1 DEF IsNewest, Allocated
  <2>2. IsNewest(f, b, Newest(f, b))
    BY <2>1, NewestExists
  <2>3. Newest(f, b) = s
    BY <1>1, <2>2, NewestUnique
  <2>. QED BY <2>1, <2>3 DEF Content
<1>2. ~Allocated(f, b) => Content(f, b) = BlankData
  BY DEF Content
<1>3. BlankData \in Data
  BY FormatAssumption DEF BlankData, Data
<1>4. CASE Allocated(f, b)
  <2>1. IsNewest(f, b, Newest(f, b)) /\ Newest(f, b) \in Sector
    BY <1>4, NewestExists DEF IsNewest, Copies
  <2>2. f[Newest(f, b)].data \in Data
    BY <2>1 DEF Image
  <2>. QED BY <1>1, <1>4, <2>1, <2>2
<1>. QED BY <1>1, <1>2, <1>3, <1>4

(* Where the newest copy survives with its data, so does the content.      *)
LEMMA ContentKept ==
  ASSUME NEW f \in Image, NEW g \in Image, NEW b \in Block,
         Allocated(g, b) => Allocated(f, b),
         \A n \in Sector : IsNewest(f, b, n) =>
           IsNewest(g, b, n) /\ g[n].data = f[n].data
  PROVE  Content(g, b) = Content(f, b)
<1>1. CASE Allocated(f, b)
  <2>1. IsNewest(f, b, Newest(f, b)) /\ Newest(f, b) \in Sector
    BY <1>1, NewestExists DEF IsNewest, Copies
  <2>. QED BY <2>1, ContentOf
<1>2. CASE ~Allocated(f, b)
  BY <1>2, ContentOf
<1>. QED BY <1>1, <1>2

-----------------------------------------------------------------------------
(* The effect of each flash operation on the content of the blocks.        *)

LEMMA EraseContent ==
  ASSUME IInv, pc = "erase", NEW b \in Block
  PROVE  Content(EraseSector(sector, dest), b) = Content(sector, b)
<1> DEFINE g == EraseSector(sector, dest)
<1>1. sector \in Image
  BY DEF IInv, TypeOK
<1>2. /\ g \in Image
      /\ \A t \in Sector : t # dest => g[t] = sector[t]
      /\ Copies(g, b) = Copies(sector, b) \ {dest}
      /\ \A t \in Sector : IsNewest(sector, b, t) => t # dest /\ IsNewest(g, b, t)
  BY EraseFacts
<1>. HIDE DEF g
<1>3. Allocated(g, b) => Allocated(sector, b)
  BY <1>2 DEF Allocated
<1>4. Content(g, b) = Content(sector, b)
  BY <1>1, <1>2, <1>3, ContentKept
<1>. QED BY <1>4 DEF g

LEMMA SameCopiesSameContent ==
  ASSUME NEW f \in Image, NEW g \in Image, NEW b \in Block,
         Copies(g, b) = Copies(f, b),
         \A t \in Copies(f, b) : g[t].rev = f[t].rev /\ g[t].data = f[t].data
  PROVE  Content(g, b) = Content(f, b)
<1>1. Allocated(g, b) => Allocated(f, b)
  BY DEF Allocated
<1>2. \A n \in Sector : IsNewest(f, b, n) =>
        IsNewest(g, b, n) /\ g[n].data = f[n].data
  BY DEF IsNewest
<1>. QED BY <1>1, <1>2, ContentKept

LEMMA HeaderContent ==
  ASSUME IInv, pc = "header"
  PROVE  LET g == ProgramHeader(sector, dest, block, NewRevision)
         IN  /\ Content(g, block) = BlankData
             /\ \A b \in Block : b # block => Content(g, b) = Content(sector, b)
<1> DEFINE g == ProgramHeader(sector, dest, block, NewRevision)
<1>1. sector \in Image /\ block \in Block
  BY DEF IInv, TypeOK
<1>2. /\ g \in Image
      /\ g[dest].data = BlankData
      /\ \A t \in Sector : t # dest => g[t] = sector[t]
      /\ \A c \in Block : c # block => Copies(g, c) = Copies(sector, c)
      /\ IsNewest(g, block, dest)
  BY HeaderFacts
<1>3. \A b \in Block : dest \notin Copies(sector, b)
  BY DEF IInv, PhaseInv, Erased, Copies
<1>. HIDE DEF g
<1>4. Content(g, block) = BlankData
  BY <1>1, <1>2, ContentOf
<1>5. ASSUME NEW b \in Block, b # block
      PROVE  Content(g, b) = Content(sector, b)
  <2>1. \A t \in Copies(sector, b) : g[t].rev = sector[t].rev /\ g[t].data = sector[t].data
    BY <1>2, <1>3 DEF Copies
  <2>. QED BY <1>1, <1>2, <1>5, <2>1, SameCopiesSameContent
<1>. QED BY <1>4, <1>5 DEF g

LEMMA TornHeaderContent ==
  ASSUME IInv, pc = "header", NEW c \in {NoBlock, block}, NEW b \in Block
  PROVE  Content(ProgramHeader(sector, dest, c, JOURNAL_INVALID), b)
           = Content(sector, b)
<1> DEFINE g == ProgramHeader(sector, dest, c, JOURNAL_INVALID)
<1>1. sector \in Image
  BY DEF IInv, TypeOK
<1>2. /\ g \in Image
      /\ \A t \in Sector : t # dest => g[t] = sector[t]
      /\ Copies(g, b) = Copies(sector, b)
  BY TornHeaderFacts
<1>3. dest \notin Copies(sector, b)
  BY DEF IInv, PhaseInv, Erased, Copies
<1>. HIDE DEF g
<1>4. \A t \in Copies(sector, b) : g[t].rev = sector[t].rev /\ g[t].data = sector[t].data
  BY <1>2, <1>3 DEF Copies
<1>5. Content(g, b) = Content(sector, b)
  BY <1>1, <1>2, <1>4, SameCopiesSameContent
<1>. QED BY <1>5 DEF g

(* Programming words of the newest copy of a block changes that block only.*)
LEMMA WordsContent ==
  ASSUME IInv, pc \in Programming,
         NEW V, NEW d, \A w \in V \cap Word : d[w] \in Value
  PROVE  LET g == ProgramWords(sector, dest, V, d)
         IN  /\ Content(g, block) =
                  [w \in Word |-> IF w \in V THEN d[w] ELSE sector[dest].data[w]]
             /\ \A b \in Block : b # block => Content(g, b) = Content(sector, b)
<1> DEFINE g == ProgramWords(sector, dest, V, d)
<1>1. sector \in Image /\ block \in Block /\ dest \in Sector
      /\ IsNewest(sector, block, dest)
  BY DEF IInv, TypeOK, PhaseInv, Programming
<1>2. /\ g \in Image
      /\ \A t \in Sector : t # dest => g[t] = sector[t]
      /\ \A t \in Sector : g[t].rev = sector[t].rev
      /\ \A w \in Word : g[dest].data[w] =
                           IF w \in V THEN d[w] ELSE sector[dest].data[w]
      /\ \A b : Copies(g, b) = Copies(sector, b)
      /\ \A b, t : IsNewest(g, b, t) <=> IsNewest(sector, b, t)
  BY ProgramFacts
<1>. HIDE DEF g
<1>3. Content(g, block) = g[dest].data
  BY <1>1, <1>2, ContentOf
<1>4. g[dest].data \in Data
  BY <1>1, <1>2 DEF Image
<1>5. g[dest].data =
        [w \in Word |-> IF w \in V THEN d[w] ELSE sector[dest].data[w]]
  BY <1>2, <1>4 DEF Data
<1>6. ASSUME NEW b \in Block, b # block
      PROVE  Content(g, b) = Content(sector, b)
  <2>1. dest \notin Copies(sector, b)
    BY <1>1, <1>6 DEF IsNewest, Copies
  <2>2. \A t \in Copies(sector, b) : g[t].rev = sector[t].rev /\ g[t].data = sector[t].data
    BY <1>2, <2>1 DEF Copies
  <2>. QED BY <1>1, <1>2, <1>6, <2>2, SameCopiesSameContent
<1>. QED BY <1>3, <1>5, <1>6 DEF g

-----------------------------------------------------------------------------
(* The refinement mapping, step by step.                                   *)

LEMMA SettledOf ==
  ASSUME IInv
  PROVE  /\ pc \notin {"prefix", "patch", "tail"} =>
              \A b \in Block : Settled[b] = Content(sector, b)
         /\ pc \in {"prefix", "patch", "tail"} =>
              /\ Settled[block] = sector[src].data
              /\ \A b \in Block : b # block => Settled[b] = Content(sector, b)
BY DEF Settled, IInv, TypeOK

(* Two states whose blocks have the same content are the same store.       *)
LEMMA SettledKept ==
  ASSUME \A b \in Block : Settled'[b] = Settled[b]
  PROVE  Settled' = Settled
<1>1. Settled = [b \in Block |-> Settled[b]]
  BY DEF Settled
<1>2. Settled' = [b \in Block |-> Settled'[b]]
  BY DEF Settled
<1>. QED BY <1>1, <1>2

LEMMA JobIsNotNoJob ==
  ASSUME IInv, pc \in {"erase", "header"} \cup Programming
  PROVE  /\ Job = [block |-> block, patch |-> patch]
         /\ Job # NoJob /\ Job # Lost
         /\ Job.block = block /\ Job.patch = patch
<1>1. block \in Block /\ NoBlock \notin Block
  BY FormatAssumption DEF IInv, TypeOK, NoBlock, Block, BLOCK_TOTAL
<1>2. Job = [block |-> block, patch |-> patch]
  BY DEF Job, Programming
<1>. QED BY <1>1, <1>2 DEF NoJob, Lost

(* The beginning of a call.                                                *)
LEMMA CallRefines ==
  ASSUME IInv, IInv', pc = "idle", NEW b \in Block, NEW p \in Patch \cup {NoPatch},
         Allocate(b, p) \/ PatchInPlace(b, p) \/ PatchIntoCopy(b, p)
                        \/ JournalOver(b, p)
  PROVE  Store!Begin(b, p) \/ UNCHANGED <<Settled, Job>>
<1>1. \/ UNCHANGED vars
      \/ sector' = sector /\ pc' \in {"undefined", "halted"}
      \/ sector' = sector /\ pc' \in {"erase", "in place"} /\ block' = b /\ patch' = p
  BY DEF Allocate, PatchInPlace, PatchIntoCopy, JournalOver, TakeEmptySector, vars
<1>2. CASE UNCHANGED vars
  BY <1>2, Zenon DEF vars, Settled, Job
<1>3. \A c \in Block : Settled[c] = Content(sector, c)
  BY SettledOf
<1>4. CASE sector' = sector /\ pc' \in {"undefined", "halted"}
  BY <1>3, <1>4, SettledKept DEF Settled, Job
<1>5. CASE /\ sector' = sector /\ pc' \in {"erase", "in place"}
           /\ block' = b /\ patch' = p
  <2>1. Settled' = Settled
    BY <1>3, <1>5, SettledKept DEF Settled
  <2>2. Job = NoJob /\ Job' = [block |-> b, patch |-> p]
    BY <1>5 DEF Job
  <2>. QED BY <2>1, <2>2 DEF Store!Begin
<1>. QED BY <1>1, <1>2, <1>4, <1>5

(* Erase, header and the copying that precedes the last operation do not   *)
(* show.                                                                   *)
LEMMA EraseRefines == IInv /\ IInv' /\ Erase => UNCHANGED <<Settled, Job>>
<1> SUFFICES ASSUME IInv, IInv', Erase PROVE UNCHANGED <<Settled, Job>>
  OBVIOUS
<1>1. /\ pc = "erase" /\ pc' = "header" /\ sector' = EraseSector(sector, dest)
      /\ UNCHANGED <<block, patch>>
  BY DEF Erase
<1>2. \A b \in Block : Content(sector', b) = Content(sector, b)
  BY <1>1, EraseContent
<1>3. Settled' = Settled
  BY <1>1, <1>2, SettledOf, SettledKept DEF Settled
<1>4. Job' = Job
  BY <1>1 DEF Job
<1>. QED BY <1>3, <1>4

LEMMA WriteHeaderRefines ==
  IInv /\ IInv' /\ WriteHeader => UNCHANGED <<Settled, Job>>
<1> SUFFICES ASSUME IInv, IInv', WriteHeader PROVE UNCHANGED <<Settled, Job>>
  OBVIOUS
<1>1. /\ pc = "header"
      /\ sector' = ProgramHeader(sector, dest, block, NewRevision)
      /\ pc' = IF Fresh THEN "in place" ELSE "prefix"
      /\ UNCHANGED <<block, patch, src, dest>>
  BY HeaderFacts DEF WriteHeader
<1>2. /\ Content(sector', block) = BlankData
      /\ \A b \in Block : b # block => Content(sector', b) = Content(sector, b)
  BY <1>1, HeaderContent
<1>3. \A b \in Block : Settled[b] = Content(sector, b)
  BY <1>1, SettledOf
<1>4. block \in Block /\ sector \in Image
  BY DEF IInv, TypeOK
<1>5. CASE Fresh
  <2>1. Content(sector, block) = BlankData
    BY <1>1, <1>4, <1>5, ContentOf DEF IInv, PhaseInv
  <2>2. \A b \in Block : Settled'[b] = Content(sector', b)
    BY <1>1, <1>5 DEF Settled
  <2>. QED BY <1>1, <1>2, <1>3, <1>5, <2>1, <2>2, SettledKept DEF Job
<1>6. CASE ~Fresh
  <2>1. IsNewest(sector, block, src) /\ src \in Sector /\ src # dest
    BY <1>1, <1>6 DEF IInv, PhaseInv, TypeOK, Fresh
  <2>2. Content(sector, block) = sector[src].data
    BY <1>4, <2>1, ContentOf
  <2>3. sector'[src] = sector[src]
    BY <1>1, <2>1, HeaderFacts
  <2>4. \A b \in Block : Settled'[b] = IF b = block THEN sector'[src].data
                                       ELSE Content(sector', b)
    BY <1>1, <1>6 DEF Settled
  <2>. QED BY <1>1, <1>2, <1>3, <1>6, <2>2, <2>3, <2>4, SettledKept DEF Job
<1>. QED BY <1>5, <1>6

LEMMA CopyRefines ==
  IInv /\ IInv' /\ (CopyPrefix \/ ProgramPatch) => UNCHANGED <<Settled, Job>>
<1> SUFFICES ASSUME IInv, IInv', CopyPrefix \/ ProgramPatch
             PROVE  UNCHANGED <<Settled, Job>>
  OBVIOUS
<1>1. pc' # "halted"
  BY DEF IInv, NoAssertionFails
<1>2. /\ pc \in {"prefix", "patch"} /\ pc' \in {"patch", "tail"}
      /\ UNCHANGED <<block, patch, src, dest>>
      /\ \/ sector' = ProgramWords(sector, dest, Before, sector[src].data)
         \/ sector' = ProgramWords(sector, dest, DOMAIN patch, patch)
  BY <1>1 DEF CopyPrefix, ProgramPatch, Program, ProgramFails
<1>3. /\ \A w \in Before \cap Word : sector[src].data[w] \in Value
      /\ \A w \in DOMAIN patch \cap Word : patch[w] \in Value
  BY DataFacts
<1>4. src # dest /\ src \in Sector
  BY <1>2 DEF IInv, PhaseInv, TypeOK
<1>5. sector'[src] = sector[src]
  BY <1>2, <1>3, <1>4, ProgramFacts
<1>6. \A b \in Block : b # block => Content(sector', b) = Content(sector, b)
  <2>1. pc \in Programming
    BY <1>2 DEF Programming
  <2>2. CASE sector' = ProgramWords(sector, dest, Before, sector[src].data)
    BY <1>3, <2>1, <2>2, WordsContent
  <2>3. CASE sector' = ProgramWords(sector, dest, DOMAIN patch, patch)
    BY <1>3, <2>1, <2>3, WordsContent
  <2>. QED BY <1>2, <2>2, <2>3
<1>7. \A b \in Block : Settled'[b] = IF b = block THEN sector'[src].data
                                     ELSE Content(sector', b)
  BY <1>2 DEF Settled
<1>8. Settled' = Settled
  BY <1>2, <1>5, <1>6, <1>7, SettledOf, SettledKept
<1>. QED BY <1>2, <1>8 DEF Job

(* The last programming of a call is the commit of its patch.              *)
LEMMA CommitRefines ==
  ASSUME IInv, pc \in {"erase", "header"} \cup Programming, Return, NEW d \in Data,
         d = Store!Patched(Settled[block], patch),
         Content(sector', block) = d,
         \A b \in Block : b # block => Content(sector', b) = Settled[b]
  PROVE  Store!Commit
<1>1. /\ Job # NoJob /\ Job # Lost /\ Job.block = block /\ Job.patch = patch
  BY JobIsNotNoJob
<1>2. Job' = NoJob /\ \A b \in Block : Settled'[b] = Content(sector', b)
  BY DEF Return, Job, Settled
<1>3. Settled' = [Settled EXCEPT ![block] = d]
  <2>1. /\ Settled = [b \in Block |-> Settled[b]]
        /\ Settled' = [b \in Block |-> Settled'[b]]
    BY DEF Settled
  <2>. QED BY <1>2, <2>1
<1>. QED BY <1>1, <1>2, <1>3 DEF Store!Commit, Store!InProgress

LEMMA ProgramInPlaceRefines == IInv /\ IInv' /\ ProgramInPlace => Store!Commit
<1> SUFFICES ASSUME IInv, IInv', ProgramInPlace PROVE Store!Commit
  OBVIOUS
<1>1. pc = "in place" /\ pc' # "halted"
  BY DEF IInv, NoAssertionFails, ProgramInPlace
<1>2. Return /\ sector' = ProgramWords(sector, dest, DOMAIN patch, patch)
  BY <1>1 DEF ProgramInPlace, Program, ProgramFails
<1> DEFINE d == [w \in Word |-> IF w \in DOMAIN patch THEN patch[w]
                                ELSE sector[dest].data[w]]
<1>3. \A w \in DOMAIN patch \cap Word : patch[w] \in Value
  BY DataFacts
<1>4. /\ Content(sector', block) = d
      /\ \A b \in Block : b # block => Content(sector', b) = Content(sector, b)
  <2>1. pc \in Programming
    BY <1>1 DEF Programming
  <2>. QED BY <1>2, <1>3, <2>1, WordsContent
<1>5. IsNewest(sector, block, dest) /\ sector \in Image /\ block \in Block
      /\ dest \in Sector
  BY <1>1 DEF IInv, PhaseInv, TypeOK
<1>6. Settled[block] = sector[dest].data
  <2>1. Content(sector, block) = sector[dest].data
    BY <1>5, ContentOf
  <2>2. Settled[block] = Content(sector, block)
    BY <1>1, <1>5, SettledOf
  <2>. QED BY <2>1, <2>2
<1>7. d \in Data /\ d = Store!Patched(Settled[block], patch)
  <2>1. sector[dest].data \in Data
    BY <1>5 DEF Image
  <2>2. d \in Data
    BY <1>3, <2>1 DEF Data
  <2>. QED BY <1>6, <2>2 DEF Store!Patched
<1>8. \A b \in Block : Settled[b] = Content(sector, b)
  BY <1>1, SettledOf
<1>. HIDE DEF d
<1>. QED BY <1>1, <1>2, <1>4, <1>7, <1>8, CommitRefines DEF Programming

(* What a call has copied, what it has patched and what it copies last are *)
(* together the patched sector.                                            *)
LEMMA TailCompletes ==
  ASSUME IInv, pc = "tail", NEW w \in Word
  PROVE  (IF w \in After THEN sector[src].data[w] ELSE sector[dest].data[w])
           = IF w \in DOMAIN patch THEN patch[w] ELSE sector[src].data[w]
<1>1. /\ patch \in Patch
      /\ \A v \in Before : sector[dest].data[v] = sector[src].data[v]
      /\ \A v \in DOMAIN patch : sector[dest].data[v] = patch[v]
  BY DEF IInv, PhaseInv
<1>2. DOMAIN patch \subseteq Word
  BY <1>1, PatchFacts
<1>3. w \in DOMAIN patch \/ w \in Before \/ w \in After
  BY <1>1, PatchFacts DEF Before, After
<1>4. w \in After => w \notin DOMAIN patch
  BY <1>2 DEF After, Word
<1>. QED BY <1>1, <1>3, <1>4

LEMMA CopyTailRefines == IInv /\ IInv' /\ CopyTail => Store!Commit
<1> SUFFICES ASSUME IInv, IInv', CopyTail PROVE Store!Commit
  OBVIOUS
<1>1. pc = "tail" /\ pc' # "halted"
  BY DEF IInv, NoAssertionFails, CopyTail
<1>2. Return /\ sector' = ProgramWords(sector, dest, After, sector[src].data)
  BY <1>1 DEF CopyTail, Program, ProgramFails
<1> DEFINE d == [w \in Word |-> IF w \in After THEN sector[src].data[w]
                                ELSE sector[dest].data[w]]
<1>3. \A w \in After \cap Word : sector[src].data[w] \in Value
  BY DataFacts
<1>4. /\ Content(sector', block) = d
      /\ \A b \in Block : b # block => Content(sector', b) = Content(sector, b)
  <2>1. pc \in Programming
    BY <1>1 DEF Programming
  <2>. QED BY <1>2, <1>3, <2>1, WordsContent
<1>5. /\ Settled[block] = sector[src].data
      /\ \A b \in Block : b # block => Settled[b] = Content(sector, b)
  BY <1>1, SettledOf
<1>6. d = Store!Patched(Settled[block], patch)
  BY <1>1, <1>5, TailCompletes DEF Store!Patched
<1>7. d \in Data
  BY <1>3, <1>6, <1>5, DataFacts DEF Data, IInv, TypeOK, Image
<1>. HIDE DEF d
<1>. QED BY <1>1, <1>2, <1>4, <1>5, <1>6, <1>7, CommitRefines DEF Programming

-----------------------------------------------------------------------------
(* Power losses.                                                           *)

LEMMA PowerLossShape ==
  ASSUME IInv, pc \in {"erase", "header"} \cup Programming, pc' = "off",
         NEW d \in Data,
         \A w \in Word :
           d[w] \in {Blank, Settled[block][w],
                     Store!Patched(Settled[block], patch)[w]},
         Content(sector', block) = d,
         \A b \in Block : b # block => Content(sector', b) = Settled[b]
  PROVE  Store!PowerLoss
<1>1. /\ Job # NoJob /\ Job # Lost /\ Job.block = block /\ Job.patch = patch
  BY JobIsNotNoJob
<1>2. Job' = Lost /\ \A b \in Block : Settled'[b] = Content(sector', b)
  BY DEF Job, Settled
<1>3. Settled' = [Settled EXCEPT ![block] = d]
  <2>1. /\ Settled = [b \in Block |-> Settled[b]]
        /\ Settled' = [b \in Block |-> Settled'[b]]
    BY DEF Settled
  <2>. QED BY <1>2, <2>1
<1>4. d \in Store!Data
  BY DEF Data, Store!Data
<1>. QED BY <1>1, <1>2, <1>3, <1>4 DEF Store!PowerLoss, Store!InProgress

(* Words cut off while they were programmed: every word of the sector is   *)
(* still erased, or old, or new.                                           *)
LEMMA TornWordsRefine ==
  ASSUME IInv, pc \in Programming, pc' = "off",
         NEW V, NEW d, \A w \in V \cap Word : d[w] \in Value,
         sector' = ProgramWords(sector, dest, V, d),
         \A w \in V \cap Word : d[w] \in {Settled[block][w],
                                Store!Patched(Settled[block], patch)[w]},
         \A w \in Word : sector[dest].data[w] \in
           {Blank, Settled[block][w], Store!Patched(Settled[block], patch)[w]}
  PROVE  Store!PowerLoss
<1> DEFINE e == [w \in Word |-> IF w \in V THEN d[w] ELSE sector[dest].data[w]]
<1>1. /\ Content(sector', block) = e
      /\ \A b \in Block : b # block => Content(sector', b) = Content(sector, b)
  BY WordsContent
<1>2. e \in Data
  BY DEF Data, IInv, TypeOK, Image
<1>3. \A w \in Word : e[w] \in {Blank, Settled[block][w],
                                Store!Patched(Settled[block], patch)[w]}
  OBVIOUS
<1>4. \A b \in Block : b # block => Content(sector', b) = Settled[b]
  BY <1>1, SettledOf
<1>. HIDE DEF e
<1>. QED BY <1>1, <1>2, <1>3, <1>4, PowerLossShape

LEMMA PatchedWords ==
  ASSUME NEW c, NEW w \in Word
  PROVE  Store!Patched(c, patch)[w] = IF w \in DOMAIN patch THEN patch[w] ELSE c[w]
BY DEF Store!Patched

LEMMA PowerLossInWordsRefines ==
  ASSUME IInv, PowerLoss, pc \in Programming
  PROVE  Store!PowerLoss
<1>1. pc' = "off"
  BY DEF PowerLoss
<1>2. /\ \A w \in Word : sector[src].data[w] \in Value
      /\ \A w \in DOMAIN patch : patch[w] \in Value
      /\ block \in Block /\ sector \in Image
  BY DataFacts DEF IInv, TypeOK
<1>3. CASE pc = "in place"
  <2>1. sector' \in TornWords(DOMAIN patch, patch)
    BY <1>3 DEF PowerLoss
  <2>2. PICK V \in SUBSET DOMAIN patch : sector' = ProgramWords(sector, dest, V, patch)
    BY <2>1, TornWordsFacts
  <2>3. Settled[block] = sector[dest].data
    <3>1. IsNewest(sector, block, dest)
      BY <1>3 DEF IInv, PhaseInv
    <3>2. Content(sector, block) = sector[dest].data
      BY <1>2, <3>1, ContentOf
    <3>3. Settled[block] = Content(sector, block)
      BY <1>2, <1>3, SettledOf
    <3>. QED BY <3>2, <3>3
  <2>4. \A w \in V \cap Word : /\ patch[w] \in Value
                               /\ patch[w] = Store!Patched(Settled[block], patch)[w]
    BY <1>2, PatchedWords
  <2>. QED BY <1>1, <2>2, <2>3, <2>4, TornWordsRefine
<1>4. CASE pc \in {"prefix", "patch", "tail"}
  <2>1. Settled[block] = sector[src].data /\ patch \in Patch
    BY <1>4, SettledOf DEF IInv, PhaseInv
  <2>2. \A w \in Word : sector[dest].data[w] \in
          {Blank, sector[src].data[w], Store!Patched(Settled[block], patch)[w]}
    <3> SUFFICES ASSUME NEW w \in Word
                 PROVE  sector[dest].data[w] \in
                          {Blank, sector[src].data[w],
                           Store!Patched(Settled[block], patch)[w]}
      OBVIOUS
    <3>1. w \in DOMAIN patch \/ w \in Before \/ w \in After
      BY <2>1, PatchFacts DEF Before, After
    <3>2. w \in DOMAIN patch => w \notin Before
      BY <2>1, PatchFacts DEF Before, Word
    <3>3. CASE pc = "prefix"
      BY <3>3 DEF IInv, PhaseInv, WordsErased
    <3>4. CASE pc = "patch"
      BY <3>4 DEF IInv, PhaseInv, WordsErased
    <3>5. CASE pc = "tail"
      BY <3>1, <3>5, PatchedWords DEF IInv, PhaseInv, WordsErased
    <3>. QED BY <1>4, <3>3, <3>4, <3>5
  <2>3. CASE pc = "patch"
    <3>1. sector' \in TornWords(DOMAIN patch, patch)
      BY <2>3 DEF PowerLoss
    <3>2. PICK V \in SUBSET DOMAIN patch : sector' = ProgramWords(sector, dest, V, patch)
      BY <3>1, TornWordsFacts
    <3>3. \A w \in V \cap Word : /\ patch[w] \in Value
                                 /\ patch[w] = Store!Patched(Settled[block], patch)[w]
      BY <1>2, PatchedWords
    <3>. QED BY <1>1, <2>1, <2>2, <3>2, <3>3, TornWordsRefine
  <2>4. CASE pc \in {"prefix", "tail"}
    <3>1. \E W : sector' \in TornWords(W, sector[src].data)
      BY <2>4 DEF PowerLoss
    <3>2. PICK V : sector' = ProgramWords(sector, dest, V, sector[src].data)
      BY <3>1, TornWordsFacts
    <3>3. \A w \in V \cap Word : /\ sector[src].data[w] \in Value
                                 /\ sector[src].data[w] = Settled[block][w]
      BY <1>2, <2>1
    <3>. QED BY <1>1, <2>1, <2>2, <3>2, <3>3, TornWordsRefine
  <2>. QED BY <1>4, <2>3, <2>4
<1>. QED BY <1>3, <1>4 DEF Programming

LEMMA PowerLossRefines == IInv /\ IInv' /\ PowerLoss => Store!PowerLoss
<1> SUFFICES ASSUME IInv, IInv', PowerLoss PROVE Store!PowerLoss
  OBVIOUS
<1>1. pc' = "off"
  BY DEF PowerLoss
<1>2. sector \in Image /\ sector' \in Image /\ block \in Block
  BY DEF IInv, TypeOK
<1>3. ASSUME pc \in {"erase", "header"},
             \A b \in Block : Content(sector', b) = Content(sector, b)
      PROVE  Store!PowerLoss
  <2>1. \A b \in Block : Settled[b] = Content(sector, b)
    BY <1>3, SettledOf
  <2>2. Content(sector, block) \in Data
    BY <1>2, ContentOf
  <2>. QED BY <1>1, <1>2, <1>3, <2>1, <2>2, PowerLossShape
<1>4. CASE pc = "erase" /\ sector' \in {sector, EraseSector(sector, dest)}
  BY <1>3, <1>4, EraseContent
<1>5. CASE pc = "header" /\ sector' \in TornHeader
  <2>1. CASE sector' = sector
    BY <1>3, <1>5, <2>1
  <2>2. CASE \E c \in {NoBlock, block} :
               sector' = ProgramHeader(sector, dest, c, JOURNAL_INVALID)
    BY <1>3, <1>5, <2>2, TornHeaderContent
  <2>3. CASE sector' = ProgramHeader(sector, dest, block, NewRevision)
    <3>1. /\ Content(sector', block) = BlankData
          /\ \A b \in Block : b # block => Content(sector', b) = Content(sector, b)
      BY <1>5, <2>3, HeaderContent
    <3>2. \A b \in Block : Settled[b] = Content(sector, b)
      BY <1>5, SettledOf
    <3>3. BlankData \in Data /\ \A w \in Word : BlankData[w] = Blank
      BY FormatAssumption DEF BlankData, Data
    <3>. QED BY <1>1, <1>5, <3>1, <3>2, <3>3, PowerLossShape
  <2>. QED BY <1>5, <2>1, <2>2, <2>3 DEF TornHeader
<1>6. CASE pc \in Programming
  BY <1>6, PowerLossInWordsRefines
<1>. QED BY <1>4, <1>5, <1>6 DEF PowerLoss, Programming

LEMMA RestartRefines == IInv /\ Restart => Store!Restart
<1> SUFFICES ASSUME IInv, Restart PROVE Store!Restart
  OBVIOUS
<1>1. /\ pc = "off" /\ pc' = "idle"
      /\ UNCHANGED <<sector, block, patch, src, dest>>
  BY DEF Restart
<1>2. Settled' = Settled
  BY <1>1, SettledOf, SettledKept DEF Settled
<1>3. Job = Lost /\ Job' = NoJob
  BY <1>1 DEF Job
<1>. QED BY <1>2, <1>3 DEF Store!Restart

-----------------------------------------------------------------------------
(* Every step is one of the block store's or changes nothing there.        *)
LEMMA NextRefines == IInv /\ IInv' /\ [Next]_vars => [Store!Next]_(Store!vars)
<1> SUFFICES ASSUME IInv, IInv', [Next]_vars
             PROVE  Store!Next \/ UNCHANGED <<Settled, Job>>
  BY DEF Store!vars
<1>1. ASSUME NEW b \in Block, NEW p \in Patch \cup {NoPatch}, pc = "idle",
             Allocate(b, p) \/ PatchInPlace(b, p) \/ PatchIntoCopy(b, p)
                            \/ JournalOver(b, p)
      PROVE  Store!Next \/ UNCHANGED <<Settled, Job>>
  BY <1>1, CallRefines DEF Store!Next
<1>2. CASE \E b \in Block : \/ storageGetData(b)
                            \/ \E p \in Patch : storagePatchData(b, p)
  BY <1>1, <1>2 DEF storageGetData, storagePatchData
<1>3. CASE Erase \/ WriteHeader \/ CopyPrefix \/ ProgramPatch
  BY <1>3, EraseRefines, WriteHeaderRefines, CopyRefines
<1>4. CASE ProgramInPlace \/ CopyTail
  BY <1>4, ProgramInPlaceRefines, CopyTailRefines DEF Store!Next
<1>5. CASE PowerLoss
  BY <1>5, PowerLossRefines DEF Store!Next
<1>6. CASE Restart
  BY <1>6, RestartRefines DEF Store!Next
<1>7. CASE UNCHANGED vars
  BY <1>7, Zenon DEF vars, Settled, Job
<1>. QED BY <1>2, <1>3, <1>4, <1>5, <1>6, <1>7 DEF Next

(* The file system keeps the promise of the block store: patches are all   *)
(* or nothing, other blocks are never touched, and a power loss damages    *)
(* only the block being patched.                                           *)
THEOREM OrfsImplementsBlockStore == Spec => ImplementsBlockStore
<1>1. Init => Store!Init
  <2> SUFFICES ASSUME Init PROVE Store!Init
    OBVIOUS
  <2>1. \A b \in Block : Content(sector, b) = BlankData
    BY DEF Init, Content, Allocated, Copies, Erased
  <2>2. Settled = [b \in Block |-> [w \in Word |-> Blank]]
    BY <2>1 DEF Init, Settled, BlankData
  <2>. QED BY <2>2 DEF Init, Job, Store!Init
<1>. QED BY <1>1, NextRefines, Invariant, PTL DEF Spec, ImplementsBlockStore, Store!Spec
=============================================================================
