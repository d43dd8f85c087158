----------------------------- MODULE BlockStore -----------------------------
(***************************************************************************)
(* What the Orchard file system promises its users (genes, userconfig, the *)
(* audit log): a store of blocks of words in which a patch of one block    *)
(* takes effect at once or not at all, and never touches another block.    *)
(* Two exceptions are part of the promise: a block whose journal is used   *)
(* up refuses further patches, and a power loss in the middle of a patch   *)
(* may leave words of that one block erased, old or new.                   *)
(***************************************************************************)
CONSTANTS Block, Word, Value, Blank,
          Patch,  \* the patches users may ask for: functions on words
          NoJob,  \* no patch is in progress
          Lost    \* the power is off

VARIABLES content,  \* the data words of every block
          pending   \* the patch in progress: [block, patch], NoJob or Lost

vars == <<content, pending>>

Data == [Word -> Value]

Patched(d, p) == [w \in Word |-> IF w \in DOMAIN p THEN p[w] ELSE d[w]]

Init ==
  /\ content = [b \in Block |-> [w \in Word |-> Blank]]
  /\ pending = NoJob

Begin(b, p) ==
  /\ pending = NoJob
  /\ pending' = [block |-> b, patch |-> p]
  /\ UNCHANGED content

InProgress == pending \notin {NoJob, Lost}

Commit ==
  /\ InProgress
  /\ content' = [content EXCEPT ![pending.block] = Patched(@, pending.patch)]
  /\ pending' = NoJob

PowerLoss ==
  /\ InProgress
  /\ LET old == content[pending.block]
         new == Patched(old, pending.patch)
     IN  \E torn \in Data :
           /\ \A w \in Word : torn[w] \in {Blank, old[w], new[w]}
           /\ content' = [content EXCEPT ![pending.block] = torn]
  /\ pending' = Lost

Restart ==
  /\ pending = Lost
  /\ pending' = NoJob
  /\ UNCHANGED content

Next ==
  \/ \E b \in Block, p \in Patch : Begin(b, p)
  \/ Commit
  \/ PowerLoss
  \/ Restart

Spec == Init /\ [][Next]_vars
=============================================================================
