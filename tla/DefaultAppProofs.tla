-------------------------- MODULE DefaultAppProofs --------------------------
(***************************************************************************)
(* Proofs about what the default app shows: the list of friends (Friends)  *)
(* and the light pattern (Effects), which share no state.                  *)
(*                                                                         *)
(* For any size of the table, any credits and any names, the list stays    *)
(* consistent, the cursor on it, and friends that are nearby in it.  For   *)
(* any patterns and limits of the brightness, the pattern and the genome   *)
(* it shows belong together.                                               *)
(***************************************************************************)
EXTENDS Friends, Effects, TLAPS, FiniteSetTheorems

(* Who was heard since the last clean-up survives the next one.            *)
CreditInv ==
  \A i \in Slot : friends[i] # NULL /\ friends[i].name \in heard => friends[i].credit > 1

(* The friend shown under the cursor is there until it is forgotten.       *)
ShownInv == redraw = "done" /\ shown # NULL => partner = shown

IInv == TypeOK /\ NoDuplicates /\ CursorInList /\ CreditInv /\ ShownInv

-----------------------------------------------------------------------------
(* Facts about the operators of the model.                                 *)

LEMMA SlotsAreFinite == IsFiniteSet(Slot) /\ Cardinality(Slot) = MAX_FRIENDS
BY FriendsAssumption, FS_Interval DEF Slot

(* friends_total cannot exceed the table.                                  *)
LEMMA CountInTable == Cardinality(Occupied) \in 0 .. MAX_FRIENDS
<1>1. Occupied \in SUBSET Slot
  BY DEF Occupied
<1>. QED BY <1>1, SlotsAreFinite, FS_Subset, FS_CardinalityType, FriendsAssumption

LEMMA LowestInSet ==
  ASSUME NEW S \in SUBSET Slot, S # {}
  PROVE  Lowest(S) \in S
<1>1. S \in SUBSET Nat
  BY FriendsAssumption DEF Slot
<1>2. PICK m \in S : \A n \in S : ~ (<<n, m>> \in OpToRel(<, Nat))
  BY <1>1, WFMin, NatLessThanWellFounded
<1>3. ASSUME NEW n \in S PROVE m <= n
  <2>1. ~(<<n, m>> \in {ss \in Nat \X Nat : ss[1] < ss[2]})
    BY <1>2, Zenon DEF OpToRel
  <2>2. <<n, m>> \in Nat \X Nat
    BY <1>1
  <2>. QED BY <2>1, <2>2
<1>. QED BY <1>3 DEF Lowest

(* qsort loses nobody: a permutation of the slots reaches every slot.      *)
LEMMA PermutationReaches ==
  ASSUME NEW p \in Permutation, NEW i \in Slot
  PROVE  \E j \in Slot : p[j] = i
<1>1. p \in Injection(Slot, Slot)
  BY DEF Permutation, Injection, IsInjective
<1>2. p \in Surjection(Slot, Slot)
  BY <1>1, SlotsAreFinite, FS_Injection
<1>. QED BY <1>2 DEF Surjection

LEMMA CreditedIsFriend ==
  ASSUME NEW f \in Friend
  PROVE  Credited(f) \in Friend /\ Credited(f).name = f.name /\ Credited(f).credit > 1
BY FriendsAssumption DEF Friend, Credited

LEMMA DebitedIsFriend ==
  ASSUME NEW f \in Friend
  PROVE  /\ Debited(f) = NULL \/ (Debited(f) \in Friend /\ Debited(f).name = f.name)
         /\ f.credit > 1 => Debited(f) # NULL
<1>1. f # NULL /\ f.credit \in 1 .. FRIENDS_MAX_CREDIT
  BY NullAssumption DEF Friend
<1>2. CASE f.credit = 1
  BY <1>2 DEF Debited
<1>3. CASE f.credit # 1
  <2>1. Debited(f) = [f EXCEPT !.credit = @ - 1]
    BY <1>1, <1>3 DEF Debited
  <2>2. f.credit - 1 \in 1 .. FRIENDS_MAX_CREDIT
    BY <1>1, <1>3, FriendsAssumption
  <2>3. Debited(f) \in Friend /\ Debited(f).name = f.name
    BY <2>1, <2>2 DEF Friend
  <2>. QED BY <2>3, NullAssumption
<1>. QED BY <1>2, <1>3

LEMMA DebitedIsNull == Debited(NULL) = NULL
BY DEF Debited

LEMMA NewFriend ==
  ASSUME NEW n \in Name
  PROVE  /\ [name |-> n, credit |-> FRIENDS_INIT_CREDIT + 1] \in Friend
         /\ FRIENDS_INIT_CREDIT + 1 > 1
BY FriendsAssumption DEF Friend

-----------------------------------------------------------------------------
LEMMA InitInv == Init => IInv
BY FriendsAssumption
DEF Init, IInv, TypeOK, NoDuplicates, CursorInList, CreditInv, ShownInv, Occupied, Slot

(* What a change of the table has to show.                                 *)
TableInv ==
  /\ friends \in [Slot -> Friend \cup {NULL}]
  /\ NoDuplicates /\ CreditInv

(* friend_add and the credit of a friend who is there.                     *)
LEMMA PingKeepsTable ==
  ASSUME IInv, NEW n \in Name, radio_ping_received(n)
  PROVE  TableInv' /\ (\A i \in Slot : friends[i] # NULL =>
           friends'[i] # NULL /\ friends'[i].name = friends[i].name)
<1>. USE DEF TableInv, NoDuplicates, CreditInv, Occupied, IInv, TypeOK
<1>0. heard' = heard \cup {n}
  BY DEF radio_ping_received
<1>1. CASE Present(n)
  <2>1. friends' = [i \in Slot |-> IF friends[i] # NULL /\ friends[i].name = n
                                   THEN Credited(friends[i]) ELSE friends[i]]
    BY <1>1 DEF radio_ping_received
  <2>2. ASSUME NEW i \in Slot
        PROVE  \/ friends[i] = NULL /\ friends'[i] = NULL
               \/ /\ friends[i] # NULL /\ friends'[i] # NULL
                  /\ friends'[i] \in Friend /\ friends'[i].name = friends[i].name
                  /\ friends'[i].name = n \/ friends'[i] = friends[i]
                  /\ friends'[i].name = n => friends'[i].credit > 1
    BY <2>1, CreditedIsFriend, NullAssumption
  <2>3. friends' \in [Slot -> Friend \cup {NULL}]
    BY <2>1, <2>2
  <2>. QED BY <1>0, <2>2, <2>3
<1>2. CASE ~Present(n) /\ friends' = friends
  BY <1>0, <1>2 DEF Present
<1>3. CASE ~Present(n) /\ friends' # friends
  <2> DEFINE k == Lowest(Slot \ Occupied)
  <2>1. friends' = [friends EXCEPT ![k] = [name |-> n, credit |-> FRIENDS_INIT_CREDIT + 1]]
    BY <1>3 DEF radio_ping_received, friend_add
  <2>2. Occupied # Slot /\ Occupied \subseteq Slot
    BY <1>3 DEF radio_ping_received, friend_add
  <2>3. k \in Slot /\ friends[k] = NULL
    BY <2>2, LowestInSet
  <2>4. friends'[k] = [name |-> n, credit |-> FRIENDS_INIT_CREDIT + 1] /\ \A i \in Slot : i # k => friends'[i] = friends[i]
    BY <2>1, <2>3
  <2>5. friends'[k] \in Friend /\ friends'[k].name = n /\ friends'[k].credit > 1
    BY <2>4, NewFriend
  <2>6. \A i \in Slot : friends[i] # NULL => friends[i].name # n
    BY <1>3 DEF Present
  <2>7. friends' \in [Slot -> Friend \cup {NULL}]
    BY <2>1, <2>3, <2>4, <2>5
  <2>. QED BY <1>0, <2>3, <2>4, <2>5, <2>6, <2>7, NullAssumption
<1>. QED BY <1>1, <1>2, <1>3

LEMMA CleanupKeepsTable ==
  ASSUME IInv, friend_cleanup
  PROVE  /\ TableInv'
         /\ \A i \in Slot : friends[i] # NULL /\ friends'[i] # NULL => friends'[i].name = friends[i].name
         /\ \A i \in Slot : friends[i] # NULL /\ friends[i].name \in heard => friends'[i] # NULL
<1>. USE DEF IInv, TypeOK, Occupied
<1>1. friends' = [i \in Slot |-> Debited(friends[i])] /\ heard' = {}
  BY DEF friend_cleanup
<1>2. ASSUME NEW i \in Slot
      PROVE  /\ friends'[i] # NULL => friends[i] # NULL /\ friends'[i] \in Friend /\ friends'[i].name = friends[i].name
             /\ friends[i] # NULL /\ friends[i].credit > 1 => friends'[i] # NULL
  BY <1>1, DebitedIsFriend, DebitedIsNull
<1>3. friends' \in [Slot -> Friend \cup {NULL}]
  BY <1>1, <1>2
<1>. QED BY <1>1, <1>2, <1>3 DEF TableInv, NoDuplicates, CreditInv

LEMMA SortKeepsTable ==
  ASSUME IInv, friendsSort, UNCHANGED heard
  PROVE  TableInv' /\ \A n \in Name : Present(n) => Present(n)'
<1>. USE DEF IInv, TypeOK, Occupied
<1>1. PICK p \in Permutation : friends' = [i \in Slot |-> friends[p[i]]]
  BY DEF friendsSort
<1>2. \A i \in Slot : p[i] \in Slot /\ friends'[i] = friends[p[i]]
  BY <1>1 DEF Permutation
<1>3. friends' \in [Slot -> Friend \cup {NULL}]
  BY <1>1, <1>2
<1>4. NoDuplicates' /\ CreditInv'
  BY <1>2 DEF NoDuplicates, CreditInv, Permutation
<1>5. ASSUME NEW n \in Name, Present(n) PROVE Present(n)'
  <2>1. PICK i \in Slot : friends[i] # NULL /\ friends[i].name = n
    BY <1>5 DEF Present
  <2>2. PICK j \in Slot : p[j] = i
    BY PermutationReaches
  <2>. QED BY <1>2, <2>1, <2>2 DEF Present
<1>. QED BY <1>3, <1>4, <1>5 DEF TableInv

(* While sorting is locked out, or nothing is sorted, a friend that is not *)
(* forgotten keeps its line.                                               *)
LEMMA StayOnLine ==
  ASSUME IInv, (\E n \in Name : radio_ping_received(n)) \/ friend_cleanup \/ UNCHANGED friends,
         NEW i \in Slot, friends[i] # NULL, friends'[i] # NULL
  PROVE  friends'[i].name = friends[i].name
BY PingKeepsTable, CleanupKeepsTable

-----------------------------------------------------------------------------
(* The cursor.                                                             *)

LEMMA CursorOnTable == IInv => friend_total = 0 \/ friend_index \in Slot
BY FriendsAssumption DEF IInv, TypeOK, CursorInList, Slot

LEMMA PartnerType == IInv => partner \in Name \cup {NULL}
BY CursorOnTable DEF IInv, TypeOK, partner, Friend

(* Whom the list shows under the cursor is not lost by a change of the     *)
(* table that keeps him on his line.                                       *)
LEMMA ShownStays ==
  ASSUME IInv, UNCHANGED <<friend_index, friend_total, redraw>>, shown' \in {shown, NULL},
         \A i \in Slot : friends[i] # NULL /\ friends[i].name = shown' =>
           friends'[i] # NULL /\ friends'[i].name = friends[i].name
  PROVE  ShownInv'
<1>. SUFFICES ASSUME redraw = "done", shown' # NULL
              PROVE  partner' = shown'
  BY DEF ShownInv
<1>1. shown' = shown /\ partner = shown
  BY DEF IInv, ShownInv
<1>2. friend_total # 0 /\ friends[friend_index] # NULL /\ friends[friend_index].name = shown
  BY <1>1 DEF partner
<1>3. friend_index \in Slot
  BY <1>2, CursorOnTable
<1>. QED BY <1>1, <1>2, <1>3 DEF partner

LEMMA CursorKeepsInv ==
  ASSUME IInv, RedrawCount \/ Key
  PROVE  friend_index' \in Nat /\ friend_total' \in 0 .. MAX_FRIENDS /\ CursorInList'
<1>. USE DEF IInv, TypeOK, CursorInList
<1>1. CASE RedrawCount
  BY <1>1, CountInTable, FriendsAssumption DEF RedrawCount
<1>2. CASE Key
  <2>1. friend_total \in Nat /\ friend_total' = friend_total
    BY <1>2, FriendsAssumption DEF Key
  <2>2. CASE KeyBottom
    <3>1. friend_total # 0 => (friend_index + 1) % friend_total \in 0 .. friend_total - 1
      BY <2>1
    <3>. QED BY <2>1, <2>2, <3>1 DEF KeyBottom
  <2>3. CASE KeyTop
    BY <2>1, <2>3 DEF KeyTop
  <2>. QED BY <1>2, <2>2, <2>3 DEF Key
<1>. QED BY <1>1, <1>2

LEMMA NextInv ==
  ASSUME IInv, [Next]_vars
  PROVE  IInv'
<1>. USE DEF IInv, TypeOK, ui
<1>1. ASSUME NEW n \in Name, radio_ping_received(n) PROVE IInv'
  <2>1. UNCHANGED <<ui, shown>> /\ heard' = heard \cup {n}
    BY <1>1 DEF radio_ping_received
  <2>2. ShownInv'
    BY <1>1, <2>1, PingKeepsTable, ShownStays
  <2>. QED BY <1>1, <2>1, <2>2, PingKeepsTable DEF TableInv, CursorInList
<1>2. CASE friend_cleanup
  <2>1. /\ UNCHANGED ui /\ heard' = {}
        /\ shown' = IF \E i \in Occupied : friends[i].name = shown /\ friends'[i] = NULL
                    THEN NULL ELSE shown
    BY <1>2 DEF friend_cleanup
  <2>2. ShownInv'
    <3>1. CASE shown' = NULL
      BY <3>1 DEF ShownInv
    <3>2. CASE shown' # NULL
      BY <1>2, <2>1, <3>2, CleanupKeepsTable, ShownStays DEF Occupied
    <3>. QED BY <3>1, <3>2
  <2>. QED BY <1>2, <2>1, <2>2, CleanupKeepsTable DEF TableInv, CursorInList
<1>3. CASE RedrawSort
  <2>1. TableInv'
    BY <1>3, SortKeepsTable DEF RedrawSort, TableInv, NoDuplicates, CreditInv, Occupied
  <2>. QED BY <1>3, <2>1 DEF TableInv, CursorInList, ShownInv, RedrawSort
<1>4. CASE RedrawCount \/ Key
  <2>1. /\ friends' = friends /\ heard' = heard /\ shown' = shown
        /\ locked_out' \in BOOLEAN /\ redraw' \in {"sort", "draw"}
    BY <1>4 DEF RedrawCount, Key
  <2>. QED BY <1>4, <2>1, CursorKeepsInv DEF NoDuplicates, CreditInv, ShownInv, Occupied
<1>5. CASE RedrawDraw
  <2>1. shown' \in {partner, NULL} /\ partner' = partner
    BY <1>5 DEF RedrawDraw, partner
  <2>. QED BY <1>5, <2>1, PartnerType
       DEF RedrawDraw, NoDuplicates, CreditInv, CursorInList, ShownInv, Occupied
<1>6. CASE RedrawOther \/ OtherEvent \/ confirm_sex \/ DialogEnds
  BY <1>6
  DEF RedrawOther, OtherEvent, confirm_sex, DialogEnds,
      NoDuplicates, CreditInv, CursorInList, ShownInv, Occupied
<1>7. CASE LockoutEnds \/ UNCHANGED vars
  BY <1>7 DEF LockoutEnds, vars, NoDuplicates, CreditInv, CursorInList, ShownInv, partner, Occupied
<1>. QED BY <1>1, <1>2, <1>3, <1>4, <1>5, <1>6, <1>7 DEF Next

(* The inductive invariant.                                                *)
THEOREM Invariant == Spec => []IInv
BY InitInv, NextInv, PTL DEF Spec

(* The types of Friends.                                                   *)
THEOREM TypeCorrect == Spec => []TypeOK
<1>1. IInv => TypeOK
  BY DEF IInv
<1>. QED BY <1>1, Invariant, PTL

(* friend_add and qsort never list a friend twice.                         *)
THEOREM FriendsAreListedOnce == Spec => []NoDuplicates
<1>1. IInv => NoDuplicates
  BY DEF IInv
<1>. QED BY <1>1, Invariant, PTL

(* The cursor of the default app is on the list.                           *)
THEOREM CursorStaysInList == Spec => []CursorInList
<1>1. IInv => CursorInList
  BY DEF IInv
<1>. QED BY <1>1, Invariant, PTL

(* Who was heard between two clean-ups outlives the second one, however    *)
(* the list is sorted.                                                     *)
THEOREM NearbyStay == Spec => NearbyFriendsStay
<1>1. IInv /\ [Next]_vars => [\A n \in heard : Present(n) => Present(n)']_vars
  <2>. SUFFICES ASSUME IInv, Next, NEW n \in heard, Present(n)
                PROVE  Present(n)'
    OBVIOUS
  <2>0. n \in Name
    BY DEF IInv, TypeOK
  <2>1. ASSUME NEW m \in Name, radio_ping_received(m) PROVE Present(n)'
    BY <2>1, PingKeepsTable DEF Present, Occupied
  <2>2. CASE friend_cleanup
    BY <2>2, CleanupKeepsTable DEF Present, Occupied
  <2>3. CASE RedrawSort
    <3>1. CASE locked_out
      BY <2>3, <3>1 DEF RedrawSort, Present, Occupied
    <3>2. CASE ~locked_out
      BY <2>0, <2>3, <3>2, SortKeepsTable DEF RedrawSort
    <3>. QED BY <3>1, <3>2
  <2>4. CASE RedrawCount \/ RedrawDraw \/ RedrawOther \/ LockoutEnds
    BY <2>4 DEF RedrawCount, RedrawDraw, RedrawOther, LockoutEnds, Present, Occupied
  <2>5. CASE Key \/ confirm_sex \/ DialogEnds \/ OtherEvent
    BY <2>5 DEF Key, confirm_sex, DialogEnds, OtherEvent, Present, Occupied
  <2>. QED BY <2>1, <2>2, <2>3, <2>4, <2>5 DEF Next
<1>. QED BY <1>1, Invariant, PTL DEF Spec, NearbyFriendsStay

(* While sorting is locked out no friend moves to another line, and nobody *)
(* takes the line of a friend that has not been forgotten.                 *)
THEOREM LinesAreKept == Spec => LinesKeepFriends
<1>1. IInv /\ [Next]_vars =>
        [locked_out => \A i, j \in Occupied :
           /\ friends'[i] = NULL \/ friends'[i].name = friends[i].name
           /\ friends'[j] # NULL /\ friends'[j].name = friends[i].name => i = j]_vars
  <2>. SUFFICES ASSUME IInv, Next, locked_out, NEW i \in Occupied, NEW j \in Occupied
                PROVE  /\ friends'[i] = NULL \/ friends'[i].name = friends[i].name
                       /\ friends'[j] # NULL /\ friends'[j].name = friends[i].name => i = j
    OBVIOUS
  <2>1. (\E n \in Name : radio_ping_received(n)) \/ friend_cleanup \/ UNCHANGED friends
    BY DEF Next, RedrawSort, RedrawOther, RedrawCount, RedrawDraw, Key, confirm_sex, DialogEnds,
           OtherEvent, LockoutEnds
  <2>2. ASSUME NEW k \in Occupied PROVE friends'[k] = NULL \/ friends'[k].name = friends[k].name
    BY <2>1, StayOnLine DEF Occupied
  <2>. QED BY <2>2 DEF IInv, NoDuplicates
<1>. QED BY <1>1, Invariant, PTL DEF Spec, LinesKeepFriends

(* Whoever is asked by Select was shown under the cursor, unless the friend*)
(* shown there has been forgotten since.                                   *)
THEOREM SelectsWhoIsShown == Spec => SelectAsksWhoIsShown
<1>1. IInv /\ [Next]_vars => [confirm_sex => shown \in {NULL, partner}]_vars
  BY DEF confirm_sex, IInv, ShownInv
<1>. QED BY <1>1, Invariant, PTL DEF Spec, SelectAsksWhoIsShown

-----------------------------------------------------------------------------
(* The light pattern.                                                      *)

(* The neighbours of a pattern are other patterns.                         *)
LEMMA Neighbours ==
  ASSUME NEW x \in Pattern, NEW d \in {1, -1}
  PROVE  /\ (x + d) % fx_max \in Pattern
         /\ (x + d) % fx_max # x
<1>1. fx_max \in Nat /\ fx_max >= 2 /\ x \in 0 .. fx_max - 1
  BY EffectsAssumption DEF Pattern
<1>2. CASE x + d \in 0 .. fx_max - 1
  <2>1. (x + d) % fx_max = x + d
    BY <1>1, <1>2
  <2>. QED BY <1>1, <1>2, <2>1 DEF Pattern
<1>3. CASE x + d = fx_max
  <2>1. fx_max % fx_max = 0
    BY <1>1
  <2>. QED BY <1>1, <1>3, <2>1 DEF Pattern
<1>4. CASE x + d = -1
  <2>1. (-1) % fx_max = fx_max - 1
    BY <1>1
  <2>. QED BY <1>1, <1>4, <2>1 DEF Pattern
<1>5. x + d \in 0 .. fx_max - 1 \/ x + d = fx_max \/ x + d = -1
  BY <1>1
<1>. QED BY <1>2, <1>3, <1>4, <1>5

(* The app thread is not within a change of the pattern.                   *)
Resting == {"idle", "dim", "beat"}

(* It has written the pattern it changed to.                               *)
Written == Resting \cup {"hack", "member", "express"}

(* When nothing raced, no page is shown and no change is under way, the    *)
(* pattern is whole; a change knows what it has read, and a page has kept  *)
(* a pattern that was whole.                                               *)
WholeInv ==
  ~raced =>
    /\ popup => /\ fx_index = STROBE /\ oldfx # STROBE
                /\ app \in Resting \cup {"hack"}
    /\ ~popup =>
         /\ app \in Written => fx_index # STROBE
         /\ app \in Resting /\ fx_index \in Lg => diploid = fx_index
         /\ app \in {"skip next", "skip prev"} => val = fx_index
         /\ app \in {"step next", "step prev"} => fx_index = STROBE
         /\ app = "again" => val # STROBE
         /\ app = "express" /\ fx_index \in Lg => val = fx_index

LightInv == EffectsTypeOK /\ WholeInv

-----------------------------------------------------------------------------
(* The accesses of the app thread within a change, each one step.          *)
LEMMA AppStepKeeps ==
  ASSUME LightInv, AppStep
  PROVE  LightInv'
<1>1. CASE Moved
  <2>1. EffectsTypeOK'
    BY <1>1 DEF Moved, At, LightInv, EffectsTypeOK, light, evt
  <2>2. WholeInv'
    BY <1>1 DEF Moved, At, LightInv, WholeInv, Resting, Written, light, evt
  <2>. QED BY <2>1, <2>2 DEF LightInv
<1>2. ASSUME NEW d \in {1, -1}, SkipStrobe(d)
      PROVE  LightInv'
  <2>1. EffectsTypeOK'
    BY <1>2 DEF SkipStrobe, At, LightInv, EffectsTypeOK, light, evt
  <2>2. WholeInv'
    BY <1>2 DEF SkipStrobe, At, LightInv, WholeInv, Resting, Written, light, evt
  <2>. QED BY <2>1, <2>2 DEF LightInv
<1>3. CASE check_lightgene_hack
  <2>1. EffectsTypeOK'
    BY <1>3 DEF check_lightgene_hack, At, LightInv, EffectsTypeOK, light, evt
  <2>2. WholeInv'
    BY <1>3, EffectsAssumption
    DEF check_lightgene_hack, At, LightInv, WholeInv, Resting, Written, light, evt
  <2>. QED BY <2>1, <2>2 DEF LightInv
<1>4. CASE Member
  <2>1. EffectsTypeOK'
    BY <1>4, EffectsAssumption
    DEF Member, At, LightInv, EffectsTypeOK, light, evt, Pattern
  <2>2. WholeInv'
    BY <1>4 DEF Member, At, LightInv, WholeInv, Resting, Written, light, evt
  <2>. QED BY <2>1, <2>2 DEF LightInv
<1>5. CASE computeGeneExpression
  <2>1. EffectsTypeOK'
    BY <1>5, EffectsAssumption
    DEF computeGeneExpression, At, LightInv, EffectsTypeOK, light, evt
  <2>2. WholeInv'
    BY <1>5
    DEF computeGeneExpression, At, LightInv, WholeInv, Resting, Written, light, evt
  <2>. QED BY <2>1, <2>2 DEF LightInv
<1>6. CASE setShiftCeiling \/ setBeatShift
  <2>1. EffectsTypeOK'
    <3>1. CASE setShiftCeiling
      BY <3>1 DEF setShiftCeiling, At, LightInv, EffectsTypeOK, evt
    <3>2. CASE setBeatShift
      <4>1. val \in 0 .. MAX_SHIFT + 1
        BY <3>2, EffectsAssumption DEF setBeatShift, At, LightInv, EffectsTypeOK
      <4>. QED BY <3>2, <4>1 DEF setBeatShift, At, LightInv, EffectsTypeOK, evt
    <3>. QED BY <1>6, <3>1, <3>2
  <2>2. WholeInv'
    BY <1>6
    DEF setShiftCeiling, setBeatShift, At, LightInv, WholeInv, Resting, Written, light, evt
  <2>. QED BY <2>1, <2>2 DEF LightInv
<1>7. ASSUME NEW d \in {1, -1}, MoveAgain(d)
      PROVE  LightInv'
  <2>0. PICK fx \in {STROBE, fx_index} : val' = (fx + d) % fx_max
    BY <1>7, Zenon DEF MoveAgain
  <2>1. fx \in Pattern
    <3>1. fx_index \in Pattern
      BY DEF LightInv, EffectsTypeOK
    <3>. QED BY <3>1, EffectsAssumption DEF Pattern
  <2>2. /\ val' \in Pattern
        /\ val' # fx
    BY <2>0, <2>1, Neighbours
  <2>3. EffectsTypeOK'
    <3>1. /\ app' = "again"
          /\ UNCHANGED <<fx_index, shift_, beatShift_, diploid, ui_override, popup>>
          /\ UNCHANGED <<oldfx, pending, battery, raced>>
      BY <1>7, Zenon DEF MoveAgain, At, light, evt
    <3>2. val' \in -1 .. fx_max + MAX_SHIFT
      BY <2>2, EffectsAssumption DEF Pattern
    <3>3. app' \notin {"express", "dim", "beat"}
      BY <3>1
    <3>. QED BY <2>2, <3>1, <3>2, <3>3, Zenon DEF LightInv, EffectsTypeOK, Pattern
  <2>4. WholeInv'
    <3>1. /\ app \in {"step next", "step prev"} /\ app' = "again"
          /\ UNCHANGED <<fx_index, diploid, popup, oldfx, raced>>
      BY <1>7 DEF MoveAgain, At, evt
    <3>2. ~raced => ~popup /\ fx = STROBE
      BY <3>1 DEF LightInv, WholeInv, Resting
    <3>. QED BY <2>2, <3>1, <3>2 DEF WholeInv, Resting, Written
  <2>. QED BY <2>3, <2>4 DEF LightInv
<1>. QED BY <1>1, <1>2, <1>3, <1>4, <1>5, <1>6, <1>7 DEF AppStep

(* A change begins with a key, new genes or a beat.                        *)
LEMMA KeysKeep ==
  ASSUME LightInv, Keys \/ processAudioFrame \/ AppBegin
  PROVE  LightInv'
<1>1. CASE NewGenes
  <2>1. EffectsTypeOK'
    BY <1>1 DEF NewGenes, At, LightInv, EffectsTypeOK, light, evt
  <2>2. WholeInv'
    BY <1>1 DEF NewGenes, At, LightInv, WholeInv, Resting, Written, light, evt
  <2>. QED BY <2>1, <2>2 DEF LightInv
<1>2. ASSUME NEW d \in {1, -1}, Move(d)
      PROVE  LightInv'
  <2>1. (fx_index + d) % fx_max \in Pattern
    BY Neighbours DEF LightInv, EffectsTypeOK
  <2>2. EffectsTypeOK'
    BY <1>2, <2>1, EffectsAssumption
    DEF Move, At, LightInv, EffectsTypeOK, light, evt, Pattern
  <2>3. WholeInv'
    BY <1>2 DEF Move, At, LightInv, WholeInv, Resting, Written, light, evt
  <2>. QED BY <2>2, <2>3 DEF LightInv
<1>3. ASSUME NEW d \in {1, -1}, Dim(d)
      PROVE  LightInv'
  <2>1. EffectsTypeOK'
    BY <1>3, EffectsAssumption DEF Dim, At, LightInv, EffectsTypeOK, light, evt
  <2>2. WholeInv'
    BY <1>3 DEF Dim, At, LightInv, WholeInv, Resting, Written, light, evt
  <2>. QED BY <2>1, <2>2 DEF LightInv
<1>4. CASE processAudioFrame
  <2>1. EffectsTypeOK'
    BY <1>4, EffectsAssumption
    DEF processAudioFrame, At, LightInv, EffectsTypeOK, light, evt
  <2>2. WholeInv'
    BY <1>4 DEF processAudioFrame, At, LightInv, WholeInv, Resting, Written, light, evt
  <2>. QED BY <2>1, <2>2 DEF LightInv
<1>5. CASE AppBegin
  <2>1. EffectsTypeOK'
    BY <1>5 DEF AppBegin, LightInv, EffectsTypeOK, light
  <2>2. WholeInv'
    BY <1>5 DEF AppBegin, LightInv, WholeInv, Resting, Written, light
  <2>. QED BY <2>1, <2>2 DEF LightInv
<1>. QED BY <1>1, <1>2, <1>3, <1>4, <1>5 DEF Keys

(* The event thread finds the app thread anywhere: within a change, a page *)
(* marks it as raced, and the check puts in a pattern without a genome.    *)
LEMMA EventThreadKeeps ==
  ASSUME LightInv,
         EventThread \/ radio_message_received \/ run_chargecheck \/ Battery
  PROVE  LightInv'
<1>0. /\ fx_index \in Pattern /\ oldfx \in Pattern /\ diploid \in Lg \cup {-1}
      /\ shift_ \in 0 .. MAX_SHIFT /\ pending \subseteq {"check", "page"}
  BY Zenon DEF LightInv, EffectsTypeOK
<1>1. CASE handle_chargecheck_timeout
  <2>1. EffectsTypeOK'
    <3>1. /\ fx_index' = (IF battery = "low" THEN SAFETY ELSE fx_index)
          /\ pending' = pending \ {"check"}
      BY <1>1 DEF handle_chargecheck_timeout
    <3>2. fx_index' \in Pattern /\ pending' \subseteq {"check", "page"}
      BY <1>0, <3>1, EffectsAssumption DEF Pattern
    <3>3. shift_' \in {0, BRIGHT_SHIFT, SAFETY_SHIFT, shift_}
      BY <1>1 DEF handle_chargecheck_timeout, LightInv, EffectsTypeOK
    <3>4. shift_' \in 0 .. MAX_SHIFT
      BY <1>0, <3>3, EffectsAssumption
    <3>5. UNCHANGED <<beatShift_, diploid, app, val, ui_override, popup, oldfx, battery>>
      BY <1>1 DEF handle_chargecheck_timeout
    <3>6. raced' \in BOOLEAN
      BY <1>1, Zenon DEF handle_chargecheck_timeout, Skipping
    <3>. QED BY <3>2, <3>4, <3>5, <3>6, Zenon DEF LightInv, EffectsTypeOK, Pattern
  <2>2. WholeInv'
    BY <1>1, EffectsAssumption
    DEF handle_chargecheck_timeout, Skipping, LightInv, WholeInv, Resting, Written
  <2>. QED BY <2>1, <2>2 DEF LightInv
<1>2. CASE handle_radio_page
  <2>1. EffectsTypeOK'
    <3>1. /\ fx_index' = STROBE /\ oldfx' = fx_index /\ pending' = pending \ {"page"}
          /\ popup' = TRUE /\ ui_override' = TRUE /\ raced' = (raced \/ Changing)
          /\ UNCHANGED <<shift_, beatShift_, diploid, app, val, battery>>
      BY <1>2, Zenon DEF handle_radio_page, light
    <3>2. fx_index' \in Pattern /\ oldfx' \in Pattern /\ pending' \subseteq {"check", "page"}
      BY <1>0, <3>1, EffectsAssumption DEF Pattern
    <3>3. raced' \in BOOLEAN /\ popup' \in BOOLEAN /\ ui_override' \in BOOLEAN
      BY <3>1, Zenon DEF Changing
    <3>. QED BY <3>1, <3>2, <3>3, Zenon DEF LightInv, EffectsTypeOK, Pattern
  <2>2. WholeInv'
    BY <1>2
    DEF handle_radio_page, LightInv, EffectsTypeOK, WholeInv, Resting, Written, Changing, light
  <2>. QED BY <2>1, <2>2 DEF LightInv
<1>3. CASE PageShown
  <2>1. EffectsTypeOK'
    <3>1. /\ fx_index' = oldfx /\ oldfx' = 0 /\ diploid' = Expressed(oldfx)
          /\ popup' = FALSE /\ ui_override' = FALSE /\ raced' = (raced \/ Changing)
          /\ UNCHANGED <<shift_, beatShift_, app, val, pending, battery>>
      BY <1>3, Zenon DEF PageShown, light
    <3>2. fx_index' \in Pattern /\ oldfx' \in Pattern /\ diploid' \in Lg \cup {-1}
      BY <1>0, <3>1, EffectsAssumption DEF Pattern, Expressed
    <3>3. raced' \in BOOLEAN /\ popup' \in BOOLEAN /\ ui_override' \in BOOLEAN
      BY <3>1, Zenon DEF Changing
    <3>. QED BY <3>1, <3>2, <3>3, Zenon DEF LightInv, EffectsTypeOK, Pattern
  <2>2. WholeInv'
    BY <1>3
    DEF PageShown, LightInv, EffectsTypeOK, WholeInv, Resting, Written, Changing, light, Expressed
  <2>. QED BY <2>1, <2>2 DEF LightInv
<1>4. CASE radio_message_received \/ run_chargecheck \/ Battery
  <2>1. EffectsTypeOK'
    BY <1>4
    DEF radio_message_received, run_chargecheck, Battery, LightInv, EffectsTypeOK, light, evt
  <2>2. WholeInv'
    BY <1>4
    DEF radio_message_received, run_chargecheck, Battery, LightInv, WholeInv, Resting, Written, light, evt
  <2>. QED BY <2>1, <2>2 DEF LightInv
<1>. QED BY <1>1, <1>2, <1>3, <1>4 DEF EventThread

(* The inductive invariant holds from effectsStart on.                     *)
THEOREM LightInvariant == EffectsSpec => []LightInv
<1>1. effectsStart => LightInv
  <2>1. effectsStart => EffectsTypeOK
    <3>. SUFFICES ASSUME effectsStart PROVE EffectsTypeOK
      OBVIOUS
    <3>1. /\ fx_index \in Pattern /\ oldfx \in Pattern /\ diploid \in Lg \cup {-1}
          /\ shift_ \in 0 .. MAX_SHIFT /\ beatShift_ \in 0 .. MAX_SHIFT + 1
          /\ val \in -1 .. fx_max + MAX_SHIFT
      BY EffectsAssumption DEF effectsStart, Pattern
    <3>2. /\ ui_override \in BOOLEAN /\ popup \in BOOLEAN /\ raced \in BOOLEAN
      BY Zenon DEF effectsStart
    <3>3. app = "idle" /\ pending = {} /\ battery = "good"
      BY DEF effectsStart
    <3>. QED BY <3>1, <3>2, <3>3 DEF EffectsTypeOK
  <2>2. effectsStart => WholeInv
    BY EffectsAssumption DEF effectsStart, WholeInv, Resting, Written
  <2>. QED BY <2>1, <2>2 DEF LightInv
<1>2. LightInv /\ [EffectsNext]_effectsVars => LightInv'
  <2>1. LightInv /\ EffectsNext => LightInv'
    BY AppStepKeeps, KeysKeep, EventThreadKeeps DEF EffectsNext
  <2>2. LightInv /\ UNCHANGED effectsVars => LightInv'
    <3>. SUFFICES ASSUME LightInv, UNCHANGED effectsVars PROVE LightInv'
      OBVIOUS
    <3>1. /\ UNCHANGED <<fx_index, shift_, beatShift_, diploid, app, val, ui_override, popup>>
          /\ UNCHANGED <<oldfx, pending, battery, raced>>
      BY Zenon DEF effectsVars, light, evt
    <3>2. EffectsTypeOK'
      BY <3>1, Zenon DEF LightInv, EffectsTypeOK, Pattern
    <3>3. WholeInv'
      BY <3>1, Zenon DEF LightInv, WholeInv
    <3>. QED BY <3>2, <3>3 DEF LightInv
  <2>. QED BY <2>1, <2>2
<1>. QED BY <1>1, <1>2, PTL DEF EffectsSpec

(* The brightness stays within its limits and the index within the         *)
(* patterns, whatever the two threads have read before they write.         *)
THEOREM LightTypeCorrect == EffectsSpec => []EffectsTypeOK
<1>1. LightInv => EffectsTypeOK
  BY DEF LightInv
<1>. QED BY <1>1, LightInvariant, PTL

(* The keys leave no strobe behind, and the genome shown is the one of the *)
(* pattern, unless a page began or ended within a change or the battery    *)
(* was found low while a key skipped the strobe.                           *)
THEOREM PatternStaysWhole == EffectsSpec => []PatternIsWhole
<1>1. LightInv => PatternIsWhole
  BY DEF LightInv, EffectsTypeOK, WholeInv, PatternIsWhole, Changing, Resting, Written
<1>. QED BY <1>1, LightInvariant, PTL
=============================================================================
