------------------------------- MODULE Friends -------------------------------
(***************************************************************************)
(* The list of badges heard nearby (orchard-app.c) and the cursor that the *)
(* default app moves over it (app-default.c).  A ping of a friend adds to  *)
(* its credit, a clean-up after every other ping sent takes one off, and   *)
(* a friend without credit is forgotten.  The list is re-sorted when it is *)
(* drawn, unless a key was pressed less than UI_LOCKOUT_TIME ago.  Select  *)
(* asks the friend under the cursor for a gene exchange.                   *)
(*                                                                         *)
(* Pings and clean-ups run in the event thread under friend_mutex and      *)
(* cannot be interrupted by the app thread, whose priority is lower; they  *)
(* come in between the locked sections of a redraw.                        *)
(***************************************************************************)
EXTENDS Integers, FiniteSets

CONSTANTS
  MAX_FRIENDS,              \* slots of the table
  FRIENDS_INIT_CREDIT,
  FRIENDS_MAX_CREDIT,
  FRIENDS_SORT_HYSTERESIS,
  Name,                     \* names, numbered in alphabetical order
  NULL

ASSUME FriendsAssumption ==
  /\ MAX_FRIENDS \in Nat \ {0}
  /\ FRIENDS_INIT_CREDIT \in Nat \ {0} /\ FRIENDS_MAX_CREDIT \in Nat
  /\ FRIENDS_INIT_CREDIT < FRIENDS_MAX_CREDIT
  /\ FRIENDS_SORT_HYSTERESIS \in Nat
  /\ Name \subseteq Nat

Slot   == 0 .. MAX_FRIENDS - 1
Friend == [name : Name, credit : 1 .. FRIENDS_MAX_CREDIT]

ASSUME NullAssumption == NULL \notin Friend

VARIABLES
  friends,        \* the table
  friend_index,   \* the cursor of the default app, and
  friend_total,   \* the number of friends it last counted
  locked_out,     \* the last key is less than UI_LOCKOUT_TIME ago
  redraw,         \* what redraw_ui does next, or "dialog" while it is not called
  heard,          \* history: the names heard since the last clean-up
  shown           \* history: the friend the list was last drawn with under
                  \* the cursor, if it has not been forgotten since

ui   == <<friend_index, friend_total, locked_out, redraw>>
vars == <<friends, ui, heard, shown>>

Occupied   == {i \in Slot : friends[i] # NULL}
Present(n) == \E i \in Occupied : friends[i].name = n

Init ==
  /\ friends = [i \in Slot |-> NULL]
  /\ friend_index = 0 /\ friend_total = 0
  /\ locked_out = TRUE /\ redraw = "sort"
  /\ heard = {} /\ shown = NULL

-----------------------------------------------------------------------------
(* The event thread.                                                       *)

Lowest(S) == CHOOSE i \in S : \A j \in S : i <= j

(* Mutant: when the table is full the last friend makes room.              *)
friend_add_evicts(n) ==
  LET i == IF Occupied = Slot THEN MAX_FRIENDS - 1 ELSE Lowest(Slot \ Occupied)
  IN  friends' = [friends EXCEPT ![i] = [name |-> n, credit |-> FRIENDS_INIT_CREDIT + 1]]

(* friend_add takes the first free slot, and fails when there is none or   *)
(* no memory; a new friend is credited for this ping like an old one.      *)
friend_add(n) ==
  IF Occupied = Slot
  THEN UNCHANGED friends
  ELSE \/ friends' = [friends EXCEPT ![Lowest(Slot \ Occupied)] =
                        [name |-> n, credit |-> FRIENDS_INIT_CREDIT + 1]]
       \/ UNCHANGED friends

(* Mutant: credit grows without bound.                                     *)
Credited_unbounded(f) == [f EXCEPT !.credit = @ + 1]

Credited(f) ==
  IF f.credit < FRIENDS_MAX_CREDIT THEN [f EXCEPT !.credit = @ + 1] ELSE f

(* Mutant: the friend is not looked up.                                    *)
radio_ping_received_blind(n) ==
  /\ friend_add(n)
  /\ heard' = heard \cup {n}
  /\ UNCHANGED <<ui, shown>>

radio_ping_received(n) ==
  /\ IF Present(n)
     THEN friends' = [i \in Slot |->
            IF friends[i] # NULL /\ friends[i].name = n
            THEN Credited(friends[i]) ELSE friends[i]]
     ELSE friend_add(n)
  /\ heard' = heard \cup {n}
  /\ UNCHANGED <<ui, shown>>

(* Mutants: a friend is dropped one unit early, or never.                  *)
Debited_early(f) ==
  IF f = NULL \/ f.credit <= 2 THEN NULL ELSE [f EXCEPT !.credit = @ - 1]
Debited_never(f) ==
  IF f = NULL \/ f.credit = 1 THEN f ELSE [f EXCEPT !.credit = @ - 1]

Debited(f) ==
  IF f = NULL \/ f.credit = 1 THEN NULL ELSE [f EXCEPT !.credit = @ - 1]

friend_cleanup ==
  /\ friends' = [i \in Slot |-> Debited(friends[i])]
  /\ heard' = {}
  /\ shown' = IF \E i \in Occupied : friends[i].name = shown /\ friends'[i] = NULL
              THEN NULL ELSE shown
  /\ UNCHANGED ui

-----------------------------------------------------------------------------
(* The app thread.                                                         *)

(* friend_comp(a, b) < 0: empty slots last, then by credit, except that    *)
(* friends with credit close to the maximum are told apart by name only.   *)
Near(a) == a.credit >= FRIENDS_MAX_CREDIT - FRIENDS_SORT_HYSTERESIS

Precedes(a, b) ==
  /\ a # NULL
  /\ \/ b = NULL
     \/ IF a.credit # b.credit /\ ~(Near(a) /\ Near(b))
        THEN a.credit > b.credit
        ELSE a.name < b.name

Permutation == {p \in [Slot -> Slot] : \A i, j \in Slot : p[i] = p[j] => i = j}

friendsSort ==
  \E p \in Permutation :
    /\ friends' = [i \in Slot |-> friends[p[i]]]
    /\ \A i, j \in Slot : i < j => ~Precedes(friends[p[j]], friends[p[i]])

(* Mutant: the lock-out is ignored.                                        *)
RedrawSort_always ==
  /\ redraw = "sort" /\ redraw' = "count"
  /\ friendsSort
  /\ UNCHANGED <<friend_index, friend_total, locked_out, heard, shown>>

RedrawSort ==
  /\ redraw = "sort" /\ redraw' = "count"
  /\ IF locked_out THEN UNCHANGED friends ELSE friendsSort
  /\ UNCHANGED <<friend_index, friend_total, locked_out, heard, shown>>

(* While a gene exchange is on the screen, redraw_ui returns before it     *)
(* sorts.                                                                  *)
RedrawOther ==
  /\ redraw = "sort" /\ redraw' = "done"
  /\ shown' = NULL
  /\ UNCHANGED <<friends, friend_index, friend_total, locked_out, heard>>

(* Mutant: the cursor is clamped one line late.                            *)
RedrawCount_late ==
  /\ redraw = "count" /\ redraw' = "draw"
  /\ friend_total' = Cardinality(Occupied)
  /\ friend_index' = IF friend_index <= friend_total' THEN friend_index
                     ELSE IF friend_total' > 0 THEN friend_total' - 1
                     ELSE 0
  /\ UNCHANGED <<friends, locked_out, heard, shown>>

RedrawCount ==
  /\ redraw = "count" /\ redraw' = "draw"
  /\ friend_total' = Cardinality(Occupied)
  /\ friend_index' = IF friend_index < friend_total' THEN friend_index
                     ELSE IF friend_total' > 0 THEN friend_total' - 1
                     ELSE 0
  /\ UNCHANGED <<friends, locked_out, heard, shown>>

(* The friend that is drawn with the cursor and that Select asks.          *)
partner ==
  IF friend_total = 0 \/ friends[friend_index] = NULL THEN NULL
  ELSE friends[friend_index].name

(* The list, or a blank screen; or "SUCCESS!" or "FAILURE!", after which   *)
(* redraw_ui is called again.                                              *)
RedrawDraw ==
  /\ redraw = "draw"
  /\ \/ redraw' = "done" /\ shown' \in {partner, NULL}
     \/ redraw' = "sort" /\ shown' = NULL
  /\ UNCHANGED <<friends, friend_index, friend_total, locked_out, heard>>

(* The keys that move the cursor; every event of the app ends in a redraw. *)
KeyBottom ==
  friend_index' = IF friend_total # 0 THEN (friend_index + 1) % friend_total ELSE 0

KeyTop ==
  friend_index' = IF friend_total = 0 THEN 0
                  ELSE IF friend_index = 0 THEN friend_total - 1
                  ELSE friend_index - 1

Key ==
  /\ redraw = "done" /\ redraw' = "sort"
  /\ KeyBottom \/ KeyTop
  /\ locked_out' = TRUE
  /\ UNCHANGED <<friends, friend_total, heard, shown>>

(* Select: the dialog opens, unless there is no memory for it.             *)
confirm_sex ==
  /\ redraw = "done" /\ partner # NULL
  /\ redraw' \in {"dialog", "sort"}
  /\ locked_out' = TRUE
  /\ UNCHANGED <<friends, friend_index, friend_total, heard, shown>>

(* The uiEvent that ends the dialog, or another app and led_start.         *)
DialogEnds ==
  /\ redraw = "dialog" /\ redraw' = "sort"
  /\ locked_out' = TRUE
  /\ UNCHANGED <<friends, friend_index, friend_total, heard, shown>>

(* A Select that opens nothing restarts the lock-out too, a timer or radio *)
(* event does not.                                                         *)
OtherEvent ==
  /\ redraw = "done" /\ redraw' = "sort"
  /\ locked_out' \in {locked_out, TRUE}
  /\ UNCHANGED <<friends, friend_index, friend_total, heard, shown>>

LockoutEnds ==
  /\ locked_out /\ locked_out' = FALSE
  /\ UNCHANGED <<friends, friend_index, friend_total, redraw, heard, shown>>

Next ==
  \/ \E n \in Name : radio_ping_received(n)
  \/ friend_cleanup
  \/ RedrawSort \/ RedrawOther \/ RedrawCount \/ RedrawDraw
  \/ Key \/ confirm_sex \/ DialogEnds \/ OtherEvent \/ LockoutEnds

Spec == Init /\ [][Next]_vars

(* The ping timer never stops, so neither do the clean-ups.                *)
FairSpec == Spec /\ WF_vars(friend_cleanup)

-----------------------------------------------------------------------------
TypeOK ==
  /\ friends \in [Slot -> Friend \cup {NULL}]
  /\ friend_index \in Nat /\ friend_total \in 0 .. MAX_FRIENDS
  /\ locked_out \in BOOLEAN
  /\ redraw \in {"sort", "count", "draw", "done", "dialog"}
  /\ shown \in Name \cup {NULL}
  /\ heard \subseteq Name

(* No friend is listed twice, although adding one looks it up in a section *)
(* of its own and sorting moves the records.                               *)
NoDuplicates ==
  \A i, j \in Occupied : friends[i].name = friends[j].name => i = j

(* The cursor stays on a line of the list that was last counted.           *)
CursorInList == friend_index < friend_total \/ friend_index = 0

(* A friend heard between two clean-ups outlives the second one: friends   *)
(* that are nearby are never forgotten ("to make sure friends that are     *)
(* nearby build up credit over time").                                     *)
NearbyFriendsStay ==
  [][\A n \in heard : Present(n) => Present(n)']_vars

(* "We just need to lockout sorting": while the user moves the cursor no   *)
(* friend moves to another line, and a line changes hands only after its   *)
(* friend has been forgotten.  That is all: a new friend need not come "on *)
(* the bottom of the list", as the comment of redraw_ui has it; it takes   *)
(* the first line that is free, be it under the cursor.                    *)
LinesKeepFriends ==
  [][locked_out => \A i, j \in Occupied :
       /\ friends'[i] = NULL \/ friends'[i].name = friends[i].name
       /\ friends'[j] # NULL /\ friends'[j].name = friends[i].name => i = j]_vars

(* Whom Select asks is whom the user saw under the cursor, whatever was    *)
(* heard, forgotten or sorted since the list was counted, drawn and drawn  *)
(* again, unless that friend has been forgotten meanwhile: then it may be  *)
(* one that has never been on the screen.                                  *)
SelectAsksWhoIsShown == [][confirm_sex => shown \in {NULL, partner}]_vars

(* A friend that is heard no more is forgotten.                            *)
SilentFriendsFade ==
  \A n \in Name : []<>~Present(n) \/ []<><<radio_ping_received(n)>>_vars
=============================================================================
