------------------------------ MODULE GweQueue ------------------------------
(***************************************************************************)
(* The message queue of CeGwe (ce_gwe.h) as a data type.                   *)
(*                                                                         *)
(* All messages of all guest threads wait in one flat deque, from which    *)
(* they are retrieved.  Beside it CeGwe keeps, for every owner thread, a   *)
(* lane per kind of message; only the lanes' sizes are read, and they      *)
(* decide whether a thread that waits for messages is woken.  A message's  *)
(* owner is fixed when it is queued, if its window has one then.           *)
(*                                                                         *)
(* The lanes are sets of message ids here: their order is never read.      *)
(***************************************************************************)
EXTENDS Integers, SequencesExt, Selection

CONSTANTS
  Windows,   \* window handles
  Owners,    \* threads that own windows and retrieve messages
  NoWindow,  \* hwnd 0: a message to a thread
  NoOwner    \* kNoOwnerThread

Kinds == {"Posted", "Sent", "Input", "Timer", "Thread"}

(* A message before it is queued.  sender is synchronousSender; what is the *)
(* message number, as far as the code tells messages apart.                 *)
Message(hwnd, what) ==
  [id |-> 0, hwnd |-> hwnd, what |-> what, kind |-> "Posted", sender |-> NoOwner]

EmptyQueue ==
  [messages |-> <<>>,                                        \* messages_
   lanes    |-> [t \in Owners |-> [k \in Kinds |-> {}]],     \* threadQueues_
   ownerOf  |-> [i \in {} |-> NoOwner],                      \* messageOwners_
   nextId   |-> 1]                                           \* nextMessageId_

Queued(q) == ToSet(q.messages)

(* Mutant: the owner of the window now.                                     *)
CurrentOwner(q, windowOwners, m) ==
  IF m.hwnd = NoWindow THEN NoOwner ELSE windowOwners[m.hwnd]

(* windowOwners is windowOwners_, NoOwner where it has no entry.            *)
OwnerForMessage(q, windowOwners, m) ==
  IF m.id \in DOMAIN q.ownerOf THEN q.ownerOf[m.id]
  ELSE IF m.hwnd = NoWindow THEN NoOwner ELSE windowOwners[m.hwnd]

HasMessagesForOwner(q, t) == \E k \in Kinds : q.lanes[t][k] # {}

----------------------------------------------------------------------------
(* Queueing.                                                                *)

(* addToOwnerQueue, after prepareForQueue found the owner.                  *)
AddToOwnerQueue(q, m, owner) ==
  IF owner = NoOwner THEN q
  ELSE [q EXCEPT !.ownerOf = [i \in DOMAIN @ \cup {m.id} |->
                                IF i = m.id THEN owner ELSE @[i]],
                 !.lanes[owner][m.kind] = @ \cup {m.id}]

(* Mutant: ids are not used up.                                             *)
InsertSameId(q, windowOwners, m, explicit, i) ==
  LET new == [m EXCEPT !.id = q.nextId]
  IN  AddToOwnerQueue([q EXCEPT !.messages = InsertAt(@, i, new)], new,
                      OwnerForMessage(q, windowOwners, new))

(* Queue m as the i-th message; explicit is the owner the caller names, if  *)
(* it does.  A message taken off the queue keeps its id.                    *)
Insert(q, windowOwners, m, explicit, i) ==
  LET id    == IF m.id = 0 THEN q.nextId ELSE m.id
      new   == [m EXCEPT !.id = id]
      owner == IF explicit # NoOwner THEN explicit
               ELSE OwnerForMessage(q, windowOwners, new)
      after == [q EXCEPT !.messages = InsertAt(@, i, new),
                         !.nextId   = IF m.id = 0 THEN @ + 1 ELSE @]
  IN  AddToOwnerQueue(after, new, owner)

PostBack(q, windowOwners, m, explicit) ==
  Insert(q, windowOwners, m, explicit, Len(q.messages) + 1)

Post(q, windowOwners, m) == PostBack(q, windowOwners, m, NoOwner)

PostFront(q, windowOwners, m) == Insert(q, windowOwners, m, NoOwner, 1)

(* The predicates of the code are sets of queued messages here.  The place  *)
(* of the first message of S, or the end.                                   *)
FirstPlace(q, S) ==
  LET i == SelectInSeq(q.messages, LAMBDA x : x \in S)
  IN  IF i = 0 THEN Len(q.messages) + 1 ELSE i

PostAfterLeadingMatches(q, windowOwners, m, S) ==
  Insert(q, windowOwners, m, NoOwner, FirstPlace(q, Queued(q) \ S))

PostBeforeFirstMatch(q, windowOwners, m, S) ==
  Insert(q, windowOwners, m, NoOwner, FirstPlace(q, S))

----------------------------------------------------------------------------
(* Removal.                                                                 *)

(* Mutant: the lanes keep what is erased.                                   *)
RemoveOwners(q, S) ==
  [q EXCEPT !.ownerOf = [i \in DOMAIN @ \ {m.id : m \in S} |-> @[i]]]

(* removeFromOwnerQueue for every message of S.                             *)
RemoveFromOwnerQueues(q, S) ==
  LET owned == {m \in S : m.id \in DOMAIN q.ownerOf}
  IN  [q EXCEPT
         !.lanes = [t \in Owners |-> [k \in Kinds |->
                      @[t][k] \ {m.id : m \in {x \in owned :
                                   q.ownerOf[x.id] = t /\ x.kind = k}}]],
         !.ownerOf = [i \in DOMAIN @ \ {m.id : m \in S} |-> @[i]]]

Erase(q, S) ==
  IF S = {} THEN q
  ELSE [RemoveFromOwnerQueues(q, S)
          EXCEPT !.messages = Keep(@, Queued(q) \ S)]

(* Mutant: the messages are put back first to last.                         *)
MoveReversed(q, windowOwners, S) ==
  ForEach(LAMBDA acc, m : PostFront(acc, windowOwners, m), Erase(q, S), Keep(q.messages, S))

(* takeIf, then the messages put back in front, the last one first.         *)
MoveToFront(q, windowOwners, S) ==
  ForEach(LAMBDA acc, m : PostFront(acc, windowOwners, m),
          Erase(q, S), Reverse(Keep(q.messages, S)))

(* firstMatchingForOwner: the message, or none.                             *)
FirstMatchingForOwner(q, windowOwners, t, S) ==
  LET i == SelectInSeq(q.messages, LAMBDA m :
             m \in S /\ OwnerForMessage(q, windowOwners, m) = t)
  IN  IF i = 0 THEN {} ELSE {q.messages[i]}
=============================================================================
