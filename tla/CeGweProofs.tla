----------------------------- MODULE CeGweProofs -----------------------------
(***************************************************************************)
(* Proofs about CeGwe and its queue, for every finite set of windows, every *)
(* set of threads and every scene.                                          *)
(*                                                                          *)
(* GweInvariant is inductive.  Its core is Good, of the queue alone, which  *)
(* every operation of GweQueue keeps: ids are distinct and come from the    *)
(* counter (Numbered); an id is in the lane of t and k exactly if it is     *)
(* queued, of kind k, with t remembered as its owner (Mirror); a message    *)
(* nobody is remembered for has a window nobody owns (Settled); its window  *)
(* was made (Known); the messages of one window stand in the order the      *)
(* properties ask for (Orderly), and paints, erases and touches are there   *)
(* once (Single).  Two facts carry the rest: what takes messages away or    *)
(* moves a whole window to the front keeps the order within every window    *)
(* (Thins), and what queues one message puts it where it fits (Fits).       *)
(*                                                                          *)
(* Known and Settled are why a window's owner may come and go: a window     *)
(* gets an owner when it is made, before any message has it, and one that   *)
(* lost its owner gets no other.                                            *)
(***************************************************************************)
EXTENDS CeGwe, SequenceLemmas

----------------------------------------------------------------------------
(* Lists of messages.                                                       *)

(* m stands ahead of n in the list s.                                       *)
Ahead(s, m, n) ==
  \E i, j \in 1 .. Len(s) : i < j /\ s[i] = m /\ s[j] = n

(* No two entries have one id.                                              *)
Distinct(s) == \A i, j \in 1 .. Len(s) : s[i].id = s[j].id => i = j

(* The members of a list are its entries.                                   *)
LEMMA ToSetMember ==
  ASSUME NEW T, NEW s \in Seq(T)
  PROVE  /\ ToSet(s) \subseteq T
         /\ \A i \in 1 .. Len(s) : s[i] \in ToSet(s)
         /\ \A m \in ToSet(s) : \E i \in 1 .. Len(s) : s[i] = m
<1>1. DOMAIN s = 1 .. Len(s) /\ \A i \in 1 .. Len(s) : s[i] \in T
  BY LenProperties, ElementOfSeq
<1> QED
  BY <1>1 DEF ToSet

(* Where ids are distinct, an id tells the entry.                           *)
LEMMA DistinctMember ==
  ASSUME NEW T, NEW s \in Seq(T), Distinct(s), NEW m \in ToSet(s), NEW n \in ToSet(s),
         m.id = n.id
  PROVE  m = n
<1>1. PICK i \in 1 .. Len(s) : s[i] = m
  BY ToSetMember
<1>2. PICK j \in 1 .. Len(s) : s[j] = n
  BY ToSetMember
<1> QED
  BY <1>1, <1>2 DEF Distinct

(* What stands ahead of something is listed, and so is the other.           *)
LEMMA AheadMembers ==
  ASSUME NEW T, NEW s \in Seq(T), NEW m, NEW n, Ahead(s, m, n)
  PROVE  m \in ToSet(s) /\ n \in ToSet(s)
BY ToSetMember DEF Ahead

(* A list without repetition has nothing ahead of itself.                   *)
LEMMA NeverAheadOfItself ==
  ASSUME NEW T, NEW s \in Seq(T), Distinct(s), NEW m
  PROVE  ~Ahead(s, m, m)
<1> Len(s) \in Nat
  BY LenProperties
<1> QED
  BY DEF Ahead, Distinct

(* What putting an entry in does to a list: the others keep their order,    *)
(* and nothing comes after an entry put at the end.                         *)
LEMMA InsertList ==
  ASSUME NEW T, NEW s \in Seq(T), NEW e \in T, NEW i \in 1 .. Len(s) + 1
  PROVE  LET r == InsertAt(s, i, e)
         IN  /\ r \in Seq(T) /\ ToSet(r) = ToSet(s) \cup {e} /\ Len(r) = Len(s) + 1
             /\ \A m, n : Ahead(r, m, n) => Ahead(s, m, n) \/ m = e \/ n = e
             /\ e \notin ToSet(s) /\ i = Len(s) + 1 => \A n : ~Ahead(r, e, n)
             /\ e \notin ToSet(s) /\ i = 1 => \A n : ~Ahead(r, n, e)
             /\ Distinct(s) /\ (\A m \in ToSet(s) : m.id # e.id) => Distinct(r)
<1> DEFINE r == InsertAt(s, i, e)
<1>0. /\ r \in Seq(T) /\ Len(r) = Len(s) + 1 /\ r[i] = e
      /\ \A j \in 1 .. Len(s) : s[j] = IF j < i THEN r[j] ELSE r[j + 1]
  BY InsertAtSeq
<1> HIDE DEF r
<1> DEFINE len == Len(s)
<1>1. len \in Nat /\ \A j \in 1 .. len : s[j] \in T
  BY LenProperties, ElementOfSeq
<1>2. /\ r \in Seq(T) /\ Len(r) = len + 1 /\ r[i] = e
      /\ \A j \in 1 .. len : s[j] = IF j < i THEN r[j] ELSE r[j + 1]
  BY <1>0
<1>3. i \in 1 .. len + 1
  OBVIOUS
<1>4. Len(s) = len
  OBVIOUS
<1> HIDE DEF len
<1> DEFINE from(k) == IF k < i THEN k ELSE k - 1
<1>5. ASSUME NEW k \in 1 .. len + 1, k # i
      PROVE  from(k) \in 1 .. len /\ r[k] = s[from(k)]
  <2>1. CASE k < i
    BY <1>1, <1>2, <1>3, <1>5, <2>1
  <2>2. CASE k > i
    <3>1. k - 1 \in 1 .. len /\ ~(k - 1 < i) /\ k - 1 + 1 = k
      BY <1>1, <1>3, <2>2
    <3>2. s[k - 1] = r[k - 1 + 1]
      BY <1>2, <3>1
    <3>3. from(k) = k - 1
      BY <1>3, <2>2
    <3> QED
      BY <3>1, <3>2, <3>3
  <2> QED
    BY <1>3, <1>5, <2>1, <2>2
<1>6. \A k, l \in 1 .. len + 1 : k < l /\ k # i /\ l # i => from(k) < from(l)
  BY <1>3
<1>7. \A k, l \in 1 .. len + 1 : k # i /\ l # i /\ from(k) = from(l) => k = l
  BY <1>3
<1> HIDE DEF from
<1>8. \A k \in 1 .. len : s[k] \in ToSet(s)
  BY <1>4, ToSetMember
<1>9. ToSet(r) = ToSet(s) \cup {e}
  <2>1. \A k \in 1 .. len + 1 : r[k] \in ToSet(s) \cup {e}
    BY <1>2, <1>5, <1>8
  <2>2. ToSet(r) \subseteq ToSet(s) \cup {e}
    BY <1>2, <2>1, ToSetMember
  <2>3. \A k \in 1 .. len + 1 : r[k] \in ToSet(r)
    BY <1>2, ToSetMember
  <2>4. ASSUME NEW m \in ToSet(s) PROVE m \in ToSet(r)
    <3>1. PICK j \in 1 .. len : s[j] = m
      BY <1>4, ToSetMember
    <3>2. j \in 1 .. len + 1 /\ j + 1 \in 1 .. len + 1
      BY <1>1
    <3> QED
      BY <1>2, <2>3, <3>1, <3>2
  <2> QED
    BY <1>2, <1>3, <2>2, <2>3, <2>4
<1>10. ASSUME NEW m, NEW n, Ahead(r, m, n)
       PROVE  /\ Ahead(s, m, n) \/ m = e \/ n = e
              /\ e \notin ToSet(s) => ~(i = len + 1 /\ m = e) /\ ~(i = 1 /\ n = e)
  <2>1. PICK k, l \in 1 .. len + 1 : k < l /\ r[k] = m /\ r[l] = n
    BY <1>2, <1>10 DEF Ahead
  <2>2. CASE k # i /\ l # i
    <3>1. from(k) \in 1 .. len /\ from(l) \in 1 .. len /\ from(k) < from(l)
      BY <1>5, <1>6, <2>1, <2>2
    <3>2. s[from(k)] = m /\ s[from(l)] = n /\ m \in ToSet(s) /\ n \in ToSet(s)
      BY <1>5, <1>8, <2>1, <2>2
    <3>3. Ahead(s, m, n)
      BY <1>4, <3>1, <3>2 DEF Ahead
    <3> QED
      BY <3>2, <3>3
  <2>3. CASE k = i
    <3>1. m = e /\ l # i /\ i # len + 1
      BY <1>1, <1>2, <2>1, <2>3
    <3>2. n \in ToSet(s)
      BY <1>5, <1>8, <2>1, <3>1
    <3> QED
      BY <3>1, <3>2
  <2>4. CASE l = i
    <3>1. n = e /\ k # i /\ i # 1
      BY <1>1, <1>2, <2>1, <2>4
    <3>2. m \in ToSet(s)
      BY <1>5, <1>8, <2>1, <3>1
    <3> QED
      BY <3>1, <3>2
  <2> QED
    BY <2>2, <2>3, <2>4
<1>11. ASSUME Distinct(s), \A m \in ToSet(s) : m.id # e.id PROVE Distinct(r)
  <2>1. ASSUME NEW k \in 1 .. len + 1, NEW l \in 1 .. len + 1, r[k].id = r[l].id PROVE k = l
    <3>1. CASE k # i /\ l # i
      <4>1. from(k) \in 1 .. len /\ from(l) \in 1 .. len /\ s[from(k)].id = s[from(l)].id
        BY <1>5, <2>1, <3>1
      <4>2. from(k) = from(l)
        BY <1>4, <1>11, <4>1 DEF Distinct
      <4> QED
        BY <1>7, <3>1, <4>2
    <3>2. CASE k = i /\ l # i
      BY <1>2, <1>5, <1>8, <1>11, <2>1, <3>2
    <3>3. CASE k # i /\ l = i
      BY <1>2, <1>5, <1>8, <1>11, <2>1, <3>3
    <3> QED
      BY <3>1, <3>2, <3>3
  <2> QED
    BY <1>2, <2>1 DEF Distinct
<1> QED
  BY <1>2, <1>4, <1>9, <1>10, <1>11 DEF r

(* What removing entries does to a list: those that stay keep their order.  *)
LEMMA KeepList ==
  ASSUME NEW T, NEW s \in Seq(T), NEW S
  PROVE  LET r == Keep(s, S)
         IN  /\ r \in Seq(T) /\ ToSet(r) = ToSet(s) \cap S
             /\ \A m, n : Ahead(r, m, n) => Ahead(s, m, n)
             /\ Distinct(s) => Distinct(r)
<1> DEFINE r == Keep(s, S)
<1>1. r \in Seq(T)
  BY KeepSeq
<1>2. PICK e : Embeds(e, s, Len(s), S, r)
  BY KeepSeq
<1> HIDE DEF r
<1>3. PICK len, got \in Nat : len = Len(s) /\ got = Len(r)
  BY <1>1, LenProperties
<1>4. /\ e \in [1 .. got -> 1 .. len]
      /\ \A k, l \in 1 .. got : k < l => e[k] < e[l]
      /\ \A k \in 1 .. got : r[k] = s[e[k]] /\ s[e[k]] \in S
      /\ \A i \in 1 .. len : s[i] \in S => \E k \in 1 .. got : e[k] = i
  BY <1>2, <1>3 DEF Embeds
<1>5. /\ \A i \in 1 .. len : s[i] \in ToSet(s)
      /\ \A m \in ToSet(s) : \E i \in 1 .. len : s[i] = m
      /\ \A i \in 1 .. got : r[i] \in ToSet(r)
      /\ \A m \in ToSet(r) : \E i \in 1 .. got : r[i] = m
  BY <1>1, <1>3, ToSetMember
<1>6. ToSet(r) = ToSet(s) \cap S
  <2>1. \A m \in ToSet(r) : m \in ToSet(s) /\ m \in S
    BY <1>4, <1>5
  <2>2. ASSUME NEW m \in ToSet(s), m \in S PROVE m \in ToSet(r)
    <3>1. PICK i \in 1 .. len : s[i] = m
      BY <1>5
    <3>2. PICK k \in 1 .. got : e[k] = i
      BY <1>4, <2>2, <3>1
    <3> QED
      BY <1>4, <1>5, <3>1, <3>2
  <2> QED
    BY <2>1, <2>2
<1>7. ASSUME NEW m, NEW n, Ahead(r, m, n) PROVE Ahead(s, m, n)
  <2>1. PICK k, l \in 1 .. got : k < l /\ r[k] = m /\ r[l] = n
    BY <1>3, <1>7 DEF Ahead
  <2>2. e[k] \in 1 .. len /\ e[l] \in 1 .. len /\ e[k] < e[l] /\ s[e[k]] = m /\ s[e[l]] = n
    BY <1>4, <2>1
  <2> QED
    BY <1>3, <2>2 DEF Ahead
<1>8. ASSUME Distinct(s) PROVE Distinct(r)
  <2>1. ASSUME NEW k \in 1 .. got, NEW l \in 1 .. got, r[k].id = r[l].id PROVE k = l
    <3>1. e[k] \in 1 .. len /\ e[l] \in 1 .. len /\ s[e[k]].id = s[e[l]].id
      BY <1>4, <2>1
    <3>2. e[k] = e[l]
      BY <1>3, <1>8, <3>1 DEF Distinct
    <3>3. ~(e[k] < e[l]) /\ ~(e[l] < e[k])
      BY <3>1, <3>2
    <3> QED
      BY <1>4, <3>3
  <2> QED
    BY <1>3, <2>1 DEF Distinct
<1> QED
  BY <1>1, <1>6, <1>7, <1>8 DEF r

(* A list reversed.                                                         *)
LEMMA ReverseList ==
  ASSUME NEW T, NEW s \in Seq(T)
  PROVE  LET r == Reverse(s)
         IN  /\ r \in Seq(T) /\ Len(r) = Len(s) /\ ToSet(r) = ToSet(s)
             /\ \A i \in 1 .. Len(s) : r[i] = s[Len(s) - i + 1]
<1> DEFINE r == Reverse(s)
<1>1. PICK len \in Nat : len = Len(s)
  BY LenProperties
<1>2. \A i \in 1 .. len : len - i + 1 \in 1 .. len /\ len - (len - i + 1) + 1 = i
  BY <1>1
<1>3. \A i \in 1 .. len : s[i] \in T
  BY <1>1, ElementOfSeq
<1>4. r = [i \in 1 .. len |-> s[(len - i) + 1]]
  BY <1>1 DEF Reverse
<1> HIDE DEF r
<1>5. r \in [1 .. len -> T] /\ \A i \in 1 .. len : r[i] = s[len - i + 1]
  BY <1>2, <1>3, <1>4
<1>6. r \in Seq(T) /\ Len(r) = len
  BY <1>5, IsASeq, LenProperties
<1>7. /\ \A i \in 1 .. len : s[i] \in ToSet(s)
      /\ \A m \in ToSet(s) : \E i \in 1 .. len : s[i] = m
      /\ \A i \in 1 .. len : r[i] \in ToSet(r)
      /\ \A m \in ToSet(r) : \E i \in 1 .. len : r[i] = m
  BY <1>1, <1>6, ToSetMember
<1>8. ASSUME NEW m \in ToSet(s) PROVE m \in ToSet(r)
  <2>1. PICK i \in 1 .. len : s[i] = m
    BY <1>7
  <2>2. r[len - i + 1] = s[len - (len - i + 1) + 1] /\ len - i + 1 \in 1 .. len
    BY <1>2, <1>5
  <2> QED
    BY <1>2, <1>7, <2>1, <2>2
<1>9. ASSUME NEW m \in ToSet(r) PROVE m \in ToSet(s)
  <2>1. PICK i \in 1 .. len : r[i] = m
    BY <1>7
  <2>2. r[i] = s[len - i + 1] /\ len - i + 1 \in 1 .. len
    BY <1>2, <1>5, <2>1
  <2> QED
    BY <1>7, <2>1, <2>2
<1> QED
  BY <1>1, <1>5, <1>6, <1>8, <1>9 DEF r

----------------------------------------------------------------------------
(* The queue's books: ids, lanes and owners.                                *)

(* A message, the owners remembered, the lanes, a queue, the windows'       *)
(* owners.                                                                  *)
Messages == [id : Nat, hwnd : Parents, what : Whats, kind : Kinds,
             sender : Owners \cup {NoOwner}]

OwnerMaps == UNION {[I -> Owners] : I \in SUBSET Nat}

Lanes == [Owners -> [Kinds -> SUBSET Nat]]

Queues == [messages : Seq(Messages), lanes : Lanes, ownerOf : OwnerMaps, nextId : Nat]

WindowOwners == [Windows -> Owners \cup {NoOwner}]

(* Ids are drawn from the counter and none is used twice.                   *)
Numbered(q) ==
  /\ q.nextId > 0 /\ Distinct(q.messages)
  /\ \A m \in Queued(q) : m.id \in 1 .. q.nextId - 1

(* LanesMirrorQueue, id by id.                                              *)
Mirror(q) ==
  /\ \A t \in Owners, k \in Kinds, i \in Nat :
       i \in q.lanes[t][k] <=> /\ i \in DOMAIN q.ownerOf /\ q.ownerOf[i] = t
                               /\ \E m \in Queued(q) : m.id = i /\ m.kind = k
  /\ \A i \in DOMAIN q.ownerOf : \E m \in Queued(q) : m.id = i

(* A message without an owner has a window without one, or none.            *)
Settled(q, wo) ==
  \A m \in Queued(q) :
    m.id \notin DOMAIN q.ownerOf => m.hwnd = NoWindow \/ wo[m.hwnd] = NoOwner

(* What every queue is, whatever its messages are about.                    *)
Basic(q, wo) == q \in Queues /\ Numbered(q) /\ Mirror(q) /\ Settled(q, wo)

(* From q to r the message m is entered in the lane of o.                   *)
Joins(q, r, m, o) ==
  /\ DOMAIN r.ownerOf = DOMAIN q.ownerOf \cup {m.id}
  /\ r.ownerOf[m.id] = o
  /\ \A i \in DOMAIN q.ownerOf : i # m.id => r.ownerOf[i] = q.ownerOf[i]
  /\ \A t \in Owners, k \in Kinds, i \in Nat :
       i \in r.lanes[t][k] <=> i \in q.lanes[t][k] \/ (t = o /\ k = m.kind /\ i = m.id)

(* The number prepareForQueue gives.                                        *)
Numbering(q, m) == [m EXCEPT !.id = IF m.id = 0 THEN q.nextId ELSE m.id]

(* The message m is entered in no lane: it has no owner.                    *)
StaysOut(q, r, m, wo) ==
  /\ m.id \notin DOMAIN q.ownerOf => m.hwnd = NoWindow \/ wo[m.hwnd] = NoOwner
  /\ r.ownerOf = q.ownerOf /\ r.lanes = q.lanes

(* The parts of a queue.                                                    *)
LEMMA QueueParts ==
  ASSUME NEW q \in Queues
  PROVE  /\ q.messages \in Seq(Messages) /\ q.nextId \in Nat
         /\ q.lanes \in Lanes /\ q.ownerOf \in OwnerMaps
         /\ Queued(q) \subseteq Messages
<1>1. /\ q.messages \in Seq(Messages) /\ q.nextId \in Nat
      /\ q.lanes \in Lanes /\ q.ownerOf \in OwnerMaps
  BY DEF Queues
<1> QED
  BY <1>1, ToSetMember DEF Queued

(* What the owners remembered are.                                          *)
LEMMA OwnerMapParts ==
  ASSUME NEW f \in OwnerMaps
  PROVE  DOMAIN f \in SUBSET Nat /\ \A i \in DOMAIN f : f[i] \in Owners
<1>1. PICK I \in SUBSET Nat : f \in [I -> Owners]
  BY DEF OwnerMaps
<1> QED
  BY <1>1

(* A message's owner is a thread, or none.                                  *)
LEMMA OwnerType ==
  ASSUME NEW q \in Queues, NEW wo \in WindowOwners, NEW m \in Messages
  PROVE  OwnerForMessage(q, wo, m) \in Owners \cup {NoOwner}
<1>1. \A i \in DOMAIN q.ownerOf : q.ownerOf[i] \in Owners
  BY QueueParts, OwnerMapParts
<1>2. m.hwnd \in Windows \cup {NoWindow}
  BY DEF Messages, Parents
<1>3. \A w \in Windows : wo[w] \in Owners \cup {NoOwner}
  BY DEF WindowOwners
<1> QED
  BY <1>1, <1>2, <1>3 DEF OwnerForMessage

(* What is remembered of a message that gets an owner.                      *)
LEMMA AddFacts ==
  ASSUME NEW q \in Queues, NEW m \in Messages, NEW o \in Owners
  PROVE  LET r == AddToOwnerQueue(q, m, o)
         IN  /\ r \in Queues /\ r.messages = q.messages /\ r.nextId = q.nextId
             /\ Joins(q, r, m, o)
<1> DEFINE r == AddToOwnerQueue(q, m, o)
           f == [i \in DOMAIN q.ownerOf \cup {m.id} |-> IF i = m.id THEN o ELSE q.ownerOf[i]]
           l == [q.lanes EXCEPT ![o][m.kind] = @ \cup {m.id}]
<1>1. m.id \in Nat /\ m.kind \in Kinds /\ o # NoOwner
  BY GweAssumption DEF Messages
<1>2. /\ q.messages \in Seq(Messages) /\ q.nextId \in Nat
      /\ q.lanes \in Lanes /\ q.ownerOf \in OwnerMaps
  BY QueueParts
<1>3. DOMAIN q.ownerOf \in SUBSET Nat /\ \A i \in DOMAIN q.ownerOf : q.ownerOf[i] \in Owners
  BY <1>2, OwnerMapParts
<1>4. f \in [DOMAIN q.ownerOf \cup {m.id} -> Owners]
  BY <1>3
<1>5. DOMAIN q.ownerOf \cup {m.id} \in SUBSET Nat
  BY <1>1, <1>3
<1>6. f \in OwnerMaps
  BY <1>4, <1>5 DEF OwnerMaps
<1>7. l \in Lanes /\ \A t \in Owners, k \in Kinds :
        l[t][k] = IF t = o /\ k = m.kind THEN q.lanes[t][k] \cup {m.id} ELSE q.lanes[t][k]
  BY <1>1, <1>2 DEF Lanes
<1>8. r = [q EXCEPT !.ownerOf = f, !.lanes = l]
  BY <1>1 DEF AddToOwnerQueue
<1>9. /\ DOMAIN f = DOMAIN q.ownerOf \cup {m.id} /\ f[m.id] = o
      /\ \A i \in DOMAIN q.ownerOf : i # m.id => f[i] = q.ownerOf[i]
  OBVIOUS
<1> HIDE DEF f, l, r
<1>10. r \in Queues /\ r.messages = q.messages /\ r.nextId = q.nextId
       /\ r.ownerOf = f /\ r.lanes = l
  BY <1>2, <1>6, <1>7, <1>8 DEF Queues
<1>11. ASSUME NEW t \in Owners, NEW k \in Kinds, NEW i \in Nat
       PROVE  i \in l[t][k] <=> i \in q.lanes[t][k] \/ (t = o /\ k = m.kind /\ i = m.id)
  <2>1. CASE t = o /\ k = m.kind
    BY <1>7, <2>1
  <2>2. CASE ~(t = o /\ k = m.kind)
    <3>1. l[t][k] = q.lanes[t][k]
      BY <1>7, <2>2
    <3> QED
      BY <2>2, <3>1
  <2> QED
    BY <2>1, <2>2
<1> QED
  BY <1>9, <1>10, <1>11 DEF Joins, r

(* What Insert does, message by message.                                    *)
LEMMA InsertFacts ==
  ASSUME NEW q \in Queues, NEW wo \in WindowOwners, NEW m \in Messages,
         NEW explicit \in Owners \cup {NoOwner}, NEW i \in 1 .. Len(q.messages) + 1
  PROVE  LET new == Numbering(q, m)
             r == Insert(q, wo, m, explicit, i)
         IN  /\ new \in Messages
             /\ r \in Queues /\ r.messages = InsertAt(q.messages, i, new)
             /\ r.nextId = IF m.id = 0 THEN q.nextId + 1 ELSE q.nextId
             /\ StaysOut(q, r, new, wo) \/ \E o \in Owners : Joins(q, r, new, o)
<1> DEFINE new == Numbering(q, m)
           r == Insert(q, wo, m, explicit, i)
           next == IF m.id = 0 THEN q.nextId + 1 ELSE q.nextId
           at == InsertAt(q.messages, i, new)
           after == [q EXCEPT !.messages = at, !.nextId = next]
           o == IF explicit # NoOwner THEN explicit ELSE OwnerForMessage(q, wo, new)
<1>1. /\ q.messages \in Seq(Messages) /\ q.nextId \in Nat
      /\ q.lanes \in Lanes /\ q.ownerOf \in OwnerMaps
  BY QueueParts
<1>2. new \in Messages
  BY <1>1 DEF Messages, Numbering
<1>3. at \in Seq(Messages)
  BY <1>1, <1>2, InsertAtSeq
<1>4. next \in Nat
  BY <1>1
<1>5. r = AddToOwnerQueue(after, new, o)
  BY DEF Insert, Numbering
<1>6. o \in Owners \cup {NoOwner}
  BY <1>2, OwnerType
<1>7. o = NoOwner => (new.id \notin DOMAIN q.ownerOf
                        => new.hwnd = NoWindow \/ wo[new.hwnd] = NoOwner)
  BY DEF OwnerForMessage
<1> HIDE DEF next, at, o, new, r
<1>8. /\ after \in Queues /\ after.messages = at /\ after.nextId = next
      /\ after.ownerOf = q.ownerOf /\ after.lanes = q.lanes
  BY <1>1, <1>3, <1>4 DEF Queues
<1> HIDE DEF after
<1>9. CASE o = NoOwner
  <2>1. r = after
    BY <1>5, <1>9 DEF AddToOwnerQueue
  <2>2. r \in Queues /\ r.messages = at /\ r.nextId = next
        /\ r.ownerOf = q.ownerOf /\ r.lanes = q.lanes
    BY <1>8, <2>1
  <2>3. StaysOut(q, r, new, wo)
    BY <1>7, <1>9, <2>2 DEF StaysOut
  <2> QED
    BY <1>2, <2>2, <2>3 DEF at, next, new, r
<1>10. CASE o # NoOwner
  <2>0. o \in Owners
    BY <1>6, <1>10
  <2>1. /\ r \in Queues /\ r.messages = after.messages /\ r.nextId = after.nextId
        /\ Joins(after, r, new, o)
    BY <1>2, <1>5, <1>8, <2>0, AddFacts
  <2>2. r.messages = at /\ r.nextId = next
    BY <1>8, <2>1
  <2>3. Joins(q, r, new, o)
    BY <1>8, <2>1, Zenon DEF Joins
  <2> QED
    BY <1>2, <2>0, <2>1, <2>2, <2>3 DEF at, next, new, r
<1> QED
  BY <1>9, <1>10

(* m has no number, or one of q's that no message of q has.                 *)
Free(q, m) == m.id = 0 \/ (m.id < q.nextId /\ \A x \in Queued(q) : x.id # m.id)

(* From q to r the message m is queued as the i-th.                         *)
Gains(q, r, m, i, wo) ==
  LET new == Numbering(q, m)
  IN  /\ Basic(r, wo) /\ new \in Messages
      /\ r.messages = InsertAt(q.messages, i, new)
      /\ r.nextId = IF m.id = 0 THEN q.nextId + 1 ELSE q.nextId
      /\ Queued(r) = Queued(q) \cup {new} /\ \A x \in Queued(q) : x.id # new.id

(* A message that has a new id, or one that is not queued, keeps the books. *)
LEMMA InsertBasic ==
  ASSUME NEW q, NEW wo \in WindowOwners, Basic(q, wo), NEW m \in Messages,
         NEW explicit \in Owners \cup {NoOwner}, NEW i \in 1 .. Len(q.messages) + 1,
         Free(q, m)
  PROVE  Gains(q, Insert(q, wo, m, explicit, i), m, i, wo)
<1> DEFINE new == Numbering(q, m)
           r == Insert(q, wo, m, explicit, i)
<1>1. /\ q \in Queues /\ q.nextId > 0 /\ q.nextId \in Nat /\ Distinct(q.messages)
      /\ \A x \in Queued(q) : x.id \in 1 .. q.nextId - 1
      /\ q.messages \in Seq(Messages) /\ Queued(q) = ToSet(q.messages)
      /\ Queued(q) \subseteq Messages
  BY QueueParts DEF Basic, Numbered, Queued
<1>2. /\ new \in Messages
      /\ r \in Queues /\ r.messages = InsertAt(q.messages, i, new)
      /\ r.nextId = IF m.id = 0 THEN q.nextId + 1 ELSE q.nextId
      /\ StaysOut(q, r, new, wo) \/ \E o \in Owners : Joins(q, r, new, o)
  BY <1>1, InsertFacts
<1>3. new.id = IF m.id = 0 THEN q.nextId ELSE m.id
  BY DEF Messages, Numbering
<1> HIDE DEF new, r
<1>4. /\ new.id = IF m.id = 0 THEN q.nextId ELSE m.id
      /\ m.id \in Nat /\ new.kind \in Kinds /\ new.id \in Nat
  BY <1>1, <1>2, <1>3 DEF Messages
<1>5. \A x \in Queued(q) : x.id # new.id
  BY <1>1, <1>4 DEF Free
<1> DEFINE list == r.messages
<1>6. /\ ToSet(list) = ToSet(q.messages) \cup {new} /\ Distinct(list)
  <2>1. list = InsertAt(q.messages, i, new) /\ Distinct(q.messages)
        /\ \A x \in ToSet(q.messages) : x.id # new.id
    BY <1>1, <1>2, <1>5
  <2> HIDE DEF list
  <2>2. q.messages \in Seq(Messages) /\ new \in Messages
    BY <1>1, <1>2
  <2> QED
    BY <2>1, <2>2, InsertList
<1>7. Queued(r) = Queued(q) \cup {new}
  BY <1>1, <1>6 DEF Queued
<1>8. new.id \notin DOMAIN q.ownerOf
  BY <1>1, <1>5 DEF Basic, Mirror
<1>9. Numbered(r)
  <2>1. r.nextId \in Nat /\ r.nextId > 0 /\ q.nextId <= r.nextId /\ new.id \in 1 .. r.nextId - 1
    BY <1>1, <1>2, <1>4 DEF Free
  <2>2. \A x \in Queued(q) : x.id \in 1 .. r.nextId - 1
    BY <1>1, <2>1
  <2> QED
    BY <1>6, <1>7, <2>1, <2>2 DEF Numbered
<1>10. Mirror(r) /\ Settled(r, wo)
  <2>1. /\ \A t \in Owners, k \in Kinds, j \in Nat :
             j \in q.lanes[t][k] <=> /\ j \in DOMAIN q.ownerOf /\ q.ownerOf[j] = t
                                     /\ \E x \in Queued(q) : x.id = j /\ x.kind = k
        /\ \A j \in DOMAIN q.ownerOf : \E x \in Queued(q) : x.id = j
        /\ \A x \in Queued(q) :
             x.id \notin DOMAIN q.ownerOf => x.hwnd = NoWindow \/ wo[x.hwnd] = NoOwner
    BY DEF Basic, Mirror, Settled
  <2>11. ASSUME NEW j \in Nat, NEW k \in Kinds
         PROVE  (\E x \in Queued(r) : x.id = j /\ x.kind = k)
                  <=> (j = new.id /\ k = new.kind) \/ (\E x \in Queued(q) : x.id = j /\ x.kind = k)
    BY <1>7
  <2>2. CASE StaysOut(q, r, new, wo)
    <3>1. r.ownerOf = q.ownerOf /\ r.lanes = q.lanes
      BY <2>2 DEF StaysOut
    <3>2. Mirror(r)
      <4>1. ASSUME NEW t \in Owners, NEW k \in Kinds, NEW j \in Nat
            PROVE  j \in r.lanes[t][k] <=> /\ j \in DOMAIN r.ownerOf /\ r.ownerOf[j] = t
                                           /\ \E x \in Queued(r) : x.id = j /\ x.kind = k
        <5>1. j \in r.lanes[t][k] <=> /\ j \in DOMAIN q.ownerOf /\ q.ownerOf[j] = t
                                      /\ \E x \in Queued(q) : x.id = j /\ x.kind = k
          BY <2>1, <3>1
        <5>2. j \in DOMAIN q.ownerOf => j # new.id
          BY <1>8
        <5> QED
          BY <2>11, <3>1, <5>1, <5>2
      <4>2. \A j \in DOMAIN r.ownerOf : \E x \in Queued(r) : x.id = j
        BY <1>7, <2>1, <3>1
      <4> QED
        BY <4>1, <4>2 DEF Mirror
    <3>3. new.hwnd = NoWindow \/ wo[new.hwnd] = NoOwner
      BY <1>8, <2>2 DEF StaysOut
    <3> QED
      BY <1>7, <2>1, <3>1, <3>2, <3>3 DEF Settled
  <2>3. ASSUME NEW o \in Owners, Joins(q, r, new, o) PROVE Mirror(r) /\ Settled(r, wo)
    <3>1. /\ DOMAIN r.ownerOf = DOMAIN q.ownerOf \cup {new.id}
          /\ r.ownerOf[new.id] = o
          /\ \A j \in DOMAIN q.ownerOf : j # new.id => r.ownerOf[j] = q.ownerOf[j]
          /\ \A t \in Owners, k \in Kinds, j \in Nat : j \in r.lanes[t][k] <=>
               j \in q.lanes[t][k] \/ (t = o /\ k = new.kind /\ j = new.id)
      BY <2>3 DEF Joins
    <3>2. ASSUME NEW t \in Owners, NEW k \in Kinds, NEW j \in Nat
          PROVE  j \in r.lanes[t][k] <=> /\ j \in DOMAIN r.ownerOf /\ r.ownerOf[j] = t
                                         /\ \E x \in Queued(r) : x.id = j /\ x.kind = k
      <4>1. CASE j = new.id
        <5>1. j \notin q.lanes[t][k]
          BY <1>8, <2>1, <4>1
        <5>2. j \in r.lanes[t][k] <=> t = o /\ k = new.kind
          BY <3>1, <4>1, <5>1
        <5>3. (\E x \in Queued(r) : x.id = j /\ x.kind = k) <=> k = new.kind
          <6>1. ~\E x \in Queued(q) : x.id = j /\ x.kind = k
            BY <1>5, <4>1
          <6> QED
            BY <2>11, <4>1, <6>1
        <5> QED
          BY <3>1, <4>1, <5>2, <5>3
      <4>2. CASE j # new.id
        <5>1. j \in r.lanes[t][k] <=> j \in q.lanes[t][k]
          BY <3>1, <4>2
        <5>2. (\E x \in Queued(r) : x.id = j /\ x.kind = k)
                <=> \E x \in Queued(q) : x.id = j /\ x.kind = k
          BY <2>11, <4>2
        <5> QED
          BY <2>1, <3>1, <4>2, <5>1, <5>2
      <4> QED
        BY <4>1, <4>2
    <3>3. \A j \in DOMAIN r.ownerOf : \E x \in Queued(r) : x.id = j
      BY <1>7, <2>1, <3>1
    <3>4. Mirror(r)
      BY <3>2, <3>3 DEF Mirror
    <3>5. Settled(r, wo)
      BY <1>7, <2>1, <3>1 DEF Settled
    <3> QED
      BY <3>4, <3>5
  <2> QED
    BY <1>2, <2>2, <2>3
<1> QED
  BY <1>2, <1>5, <1>7, <1>9, <1>10 DEF Basic, Gains, new, r

----------------------------------------------------------------------------
(* Removal.                                                                 *)

(* From q to r the messages of S leave the lanes.                           *)
Leaves(q, r, S) ==
  /\ \A i : i \in DOMAIN r.ownerOf <=> i \in DOMAIN q.ownerOf /\ \A m \in S : m.id # i
  /\ \A i \in DOMAIN r.ownerOf : r.ownerOf[i] = q.ownerOf[i]
  /\ \A t \in Owners, k \in Kinds, i \in Nat :
       i \in r.lanes[t][k] <=>
         i \in q.lanes[t][k] /\ ~\E m \in S : /\ m.id = i /\ m.kind = k
                                              /\ i \in DOMAIN q.ownerOf /\ q.ownerOf[i] = t

(* What removeFromOwnerQueue leaves, message by message.                    *)
LEMMA RemoveFacts ==
  ASSUME NEW q \in Queues, NEW S
  PROVE  LET r == RemoveFromOwnerQueues(q, S)
         IN  /\ r \in Queues /\ r.messages = q.messages /\ r.nextId = q.nextId
             /\ Leaves(q, r, S)
<1> DEFINE r == RemoveFromOwnerQueues(q, S)
           owned == {m \in S : m.id \in DOMAIN q.ownerOf}
           gone(t, k) == {m.id : m \in {x \in owned : q.ownerOf[x.id] = t /\ x.kind = k}}
           l == [t \in Owners |-> [k \in Kinds |-> q.lanes[t][k] \ gone(t, k)]]
           f == [i \in DOMAIN q.ownerOf \ {m.id : m \in S} |-> q.ownerOf[i]]
<1>1. /\ q.messages \in Seq(Messages) /\ q.nextId \in Nat
      /\ q.lanes \in Lanes /\ q.ownerOf \in OwnerMaps
  BY QueueParts
<1>2. DOMAIN q.ownerOf \in SUBSET Nat /\ \A i \in DOMAIN q.ownerOf : q.ownerOf[i] \in Owners
  BY <1>1, OwnerMapParts
<1>3. \A i : i \in DOMAIN f <=> i \in DOMAIN q.ownerOf /\ \A m \in S : m.id # i
  OBVIOUS
<1>4. \A i \in DOMAIN f : f[i] = q.ownerOf[i]
  OBVIOUS
<1>5. f \in OwnerMaps
  <2>1. DOMAIN f \in SUBSET Nat /\ \A i \in DOMAIN f : f[i] \in Owners
    BY <1>2
  <2>2. f = [i \in DOMAIN f |-> f[i]]
    OBVIOUS
  <2> HIDE DEF f
  <2> QED
    BY <2>1, <2>2 DEF OwnerMaps
<1>6. r = [q EXCEPT !.lanes = l, !.ownerOf = f]
  BY DEF RemoveFromOwnerQueues
<1>7. \A t \in Owners, k \in Kinds : l[t][k] = q.lanes[t][k] \ gone(t, k)
  OBVIOUS
<1>8. \A t, k, i : i \in gone(t, k) <=> \E m \in S : /\ m.id = i /\ m.kind = k
                                              /\ i \in DOMAIN q.ownerOf /\ q.ownerOf[i] = t
  OBVIOUS
<1>9. l \in Lanes
  <2>1. \A t \in Owners, k \in Kinds : q.lanes[t][k] \in SUBSET Nat
    BY <1>1 DEF Lanes
  <2>2. \A t \in Owners, k \in Kinds : q.lanes[t][k] \ gone(t, k) \in SUBSET Nat
    BY <2>1
  <2> HIDE DEF gone
  <2> QED
    BY <2>2 DEF Lanes
<1> HIDE DEF r, l, f, gone
<1>10. r \in Queues /\ r.messages = q.messages /\ r.nextId = q.nextId
       /\ r.ownerOf = f /\ r.lanes = l
  BY <1>1, <1>5, <1>6, <1>9 DEF Queues
<1>11. \A t \in Owners, k \in Kinds, i \in Nat :
         i \in l[t][k] <=> i \in q.lanes[t][k] /\ i \notin gone(t, k)
  BY <1>7
<1> QED
  BY <1>3, <1>4, <1>8, <1>10, <1>11 DEF Leaves, r

(* Erasing keeps the books, and the rest in its order.                      *)
LEMMA EraseBasic ==
  ASSUME NEW q, NEW wo, Basic(q, wo), NEW S \in SUBSET Queued(q)
  PROVE  LET r == Erase(q, S)
         IN  /\ Basic(r, wo) /\ r.nextId = q.nextId /\ Queued(r) = Queued(q) \ S
             /\ \A m, n : Ahead(r.messages, m, n) => Ahead(q.messages, m, n)
<1> DEFINE r == Erase(q, S)
           p == RemoveFromOwnerQueues(q, S)
           list == Keep(q.messages, Queued(q) \ S)
<1>1. /\ q \in Queues /\ q.messages \in Seq(Messages) /\ q.nextId > 0 /\ q.nextId \in Nat
      /\ Distinct(q.messages) /\ Queued(q) = ToSet(q.messages)
      /\ \A x \in Queued(q) : x.id \in 1 .. q.nextId - 1
      /\ Queued(q) \subseteq Messages
  BY QueueParts DEF Basic, Numbered, Queued
<1>2. CASE S = {}
  <2>1. r = q
    BY <1>2 DEF Erase
  <2> HIDE DEF r
  <2> QED
    BY <1>2, <2>1 DEF r
<1>3. CASE S # {}
  <2>1. r = [p EXCEPT !.messages = list]
    <3>1. r = [p EXCEPT !.messages = Keep(p.messages, Queued(q) \ S)]
      BY <1>3 DEF Erase
    <3>2. p.messages = q.messages
      BY <1>1, RemoveFacts
    <3> QED
      BY <3>1, <3>2
  <2>2. p \in Queues /\ p.messages = q.messages /\ p.nextId = q.nextId /\ Leaves(q, p, S)
    BY <1>1, RemoveFacts
  <2>3. /\ list \in Seq(Messages) /\ ToSet(list) = ToSet(q.messages) \cap (Queued(q) \ S)
        /\ \A m, n : Ahead(list, m, n) => Ahead(q.messages, m, n)
        /\ Distinct(list)
    BY <1>1, KeepList
  <2> HIDE DEF r, p, list
  <2>4. /\ r \in Queues /\ r.messages = list /\ r.nextId = q.nextId
        /\ r.ownerOf = p.ownerOf /\ r.lanes = p.lanes
    BY <2>1, <2>2, <2>3 DEF Queues
  <2>5. Queued(r) = Queued(q) \ S
    BY <1>1, <2>3, <2>4 DEF Queued
  <2>6. Numbered(r)
    BY <1>1, <2>3, <2>4, <2>5 DEF Numbered
  <2>7. /\ \A t \in Owners, k \in Kinds, j \in Nat :
             j \in q.lanes[t][k] <=> /\ j \in DOMAIN q.ownerOf /\ q.ownerOf[j] = t
                                     /\ \E x \in Queued(q) : x.id = j /\ x.kind = k
        /\ \A j \in DOMAIN q.ownerOf : \E x \in Queued(q) : x.id = j
        /\ \A x \in Queued(q) :
             x.id \notin DOMAIN q.ownerOf => x.hwnd = NoWindow \/ wo[x.hwnd] = NoOwner
    BY DEF Basic, Mirror, Settled
  <2>8. /\ \A i : i \in DOMAIN r.ownerOf <=> i \in DOMAIN q.ownerOf /\ \A m \in S : m.id # i
        /\ \A i \in DOMAIN r.ownerOf : r.ownerOf[i] = q.ownerOf[i]
        /\ \A t \in Owners, k \in Kinds, i \in Nat :
             i \in r.lanes[t][k] <=>
               i \in q.lanes[t][k] /\ ~\E m \in S : /\ m.id = i /\ m.kind = k
                                                    /\ i \in DOMAIN q.ownerOf /\ q.ownerOf[i] = t
    BY <2>2, <2>4 DEF Leaves
  <2>9. \A x, y \in Queued(q) : x.id = y.id => x = y
    BY <1>1, DistinctMember
  <2>10. ASSUME NEW t \in Owners, NEW k \in Kinds, NEW j \in Nat
         PROVE  j \in r.lanes[t][k] <=> /\ j \in DOMAIN r.ownerOf /\ r.ownerOf[j] = t
                                        /\ \E x \in Queued(r) : x.id = j /\ x.kind = k
    <3>1. ASSUME j \in r.lanes[t][k]
          PROVE  /\ j \in DOMAIN r.ownerOf /\ r.ownerOf[j] = t
                 /\ \E x \in Queued(r) : x.id = j /\ x.kind = k
      <4>1. j \in q.lanes[t][k] /\ j \in DOMAIN q.ownerOf /\ q.ownerOf[j] = t
        BY <2>7, <2>8, <3>1
      <4>2. PICK x \in Queued(q) : x.id = j /\ x.kind = k
        BY <2>7, <4>1
      <4>3. x \notin S
        BY <2>8, <3>1, <4>1, <4>2
      <4>4. \A m \in S : m.id # j
        BY <2>9, <4>2, <4>3
      <4>5. j \in DOMAIN r.ownerOf /\ x \in Queued(r)
        BY <2>5, <2>8, <4>1, <4>2, <4>3, <4>4
      <4> QED
        BY <2>8, <4>1, <4>2, <4>5
    <3>2. ASSUME j \in DOMAIN r.ownerOf, r.ownerOf[j] = t,
                 NEW x \in Queued(r), x.id = j, x.kind = k
          PROVE  j \in r.lanes[t][k]
      <4>1. j \in DOMAIN q.ownerOf /\ q.ownerOf[j] = t /\ \A m \in S : m.id # j
        BY <2>8, <3>2
      <4>2. j \in q.lanes[t][k]
        BY <2>5, <2>7, <3>2, <4>1
      <4> QED
        BY <2>8, <4>1, <4>2
    <3> QED
      BY <3>1, <3>2
  <2>11. ASSUME NEW j \in DOMAIN r.ownerOf PROVE \E x \in Queued(r) : x.id = j
    <3>1. j \in DOMAIN q.ownerOf /\ \A m \in S : m.id # j
      BY <2>8
    <3>2. PICK x \in Queued(q) : x.id = j
      BY <2>7, <3>1
    <3> QED
      BY <2>5, <3>1, <3>2
  <2>12. Settled(r, wo)
    <3>1. ASSUME NEW x \in Queued(r), x.id \notin DOMAIN r.ownerOf
          PROVE  x.hwnd = NoWindow \/ wo[x.hwnd] = NoOwner
      <4>1. x \in Queued(q) /\ x \notin S
        BY <2>5
      <4>2. \A m \in S : m.id # x.id
        BY <2>9, <4>1
      <4>3. x.id \notin DOMAIN q.ownerOf
        BY <2>8, <3>1, <4>2
      <4> QED
        BY <2>7, <4>1, <4>3
    <3> QED
      BY <3>1 DEF Settled
  <2>13. Basic(r, wo)
    BY <2>4, <2>6, <2>10, <2>11, <2>12 DEF Basic, Mirror
  <2> QED
    BY <2>3, <2>4, <2>5, <2>13 DEF r
<1> QED
  BY <1>2, <1>3

----------------------------------------------------------------------------
(* Going through a list.                                                    *)

(* Induction up to n.                                                       *)
LEMMA CountUp ==
  ASSUME NEW n \in Nat, NEW G, 0 \in G, \A i \in 1 .. n : i - 1 \in G => i \in G
  PROVE  \A i \in 0 .. n : i \in G
<1> DEFINE bad == {i \in 0 .. n : i \notin G}
<1>1. bad = {}
  <2> SUFFICES ASSUME bad # {} PROVE FALSE
    OBVIOUS
  <2>1. bad \in SUBSET Nat
    OBVIOUS
  <2>2. PICK i \in bad : \A k \in bad : i <= k
    BY <2>1, LeastNat
  <2>3. i \in 1 .. n /\ i - 1 \in 0 .. n /\ ~(i <= i - 1)
    BY <2>2
  <2>4. i - 1 \in G
    BY <2>2, <2>3
  <2> QED
    BY <2>2, <2>3, <2>4
<1> QED
  BY <1>1

(* A function that takes a step from each place to the next exists.         *)
Stepping(f, n, Q, base, step) ==
  f \in [0 .. n -> Q] /\ f[0] = base /\ \A i \in 1 .. n : f[i] = step[f[i - 1]][i]

(* A function of the places of a list that takes one step per place exists: *)
(* the induction ForEach needs.                                             *)
LEMMA StepsExist ==
  ASSUME NEW n \in Nat, NEW Q, NEW base \in Q, NEW step \in [Q -> [1 .. n -> Q]]
  PROVE  \E f : Stepping(f, n, Q, base, step)
<1> DEFINE Good(m, f) == f[0] = base /\ \A i \in 1 .. m : f[i] = step[f[i - 1]][i]
           G == {m \in 0 .. n : \E f \in [0 .. m -> Q] : Good(m, f)}
<1>1. 0 \in G
  <2> DEFINE f == [i \in 0 .. 0 |-> base]
  <2>1. f \in [0 .. 0 -> Q] /\ Good(0, f)
    OBVIOUS
  <2> HIDE DEF f
  <2>2. 0 \in 0 .. n
    OBVIOUS
  <2> QED
    BY <2>1, <2>2
<1>2. ASSUME NEW m \in 1 .. n, m - 1 \in G PROVE m \in G
  <2>1. PICK f \in [0 .. m - 1 -> Q] : Good(m - 1, f)
    BY <1>2
  <2> DEFINE g == [i \in 0 .. m |-> IF i = m THEN step[f[m - 1]][m] ELSE f[i]]
  <2>2. step[f[m - 1]][m] \in Q
    OBVIOUS
  <2>3. g \in [0 .. m -> Q]
    BY <2>2
  <2>4. ASSUME NEW i \in 1 .. m PROVE g[i] = step[g[i - 1]][i]
    <3>1. i - 1 \in 0 .. m - 1 /\ i - 1 # m /\ i - 1 \in 0 .. m
      OBVIOUS
    <3>2. g[i - 1] = f[i - 1]
      BY <3>1
    <3>3. CASE i = m
      <4>1. g[m] = step[f[m - 1]][m]
        OBVIOUS
      <4> HIDE DEF g
      <4> QED
        BY <3>2, <3>3, <4>1
    <3>4. CASE i # m
      <4>1. i \in 1 .. m - 1 /\ i \in 0 .. m
        BY <3>4
      <4>2. g[i] = f[i] /\ f[i] = step[f[i - 1]][i]
        BY <2>1, <3>4, <4>1
      <4> QED
        BY <3>2, <4>2
    <3> QED
      BY <3>3, <3>4
  <2>5. g[0] = base
    BY <2>1
  <2> HIDE DEF g
  <2>6. Good(m, g)
    BY <2>4, <2>5
  <2>7. m \in 0 .. n
    OBVIOUS
  <2> HIDE DEF Good
  <2> QED
    BY <2>3, <2>6, <2>7
<1>3. n \in G
  <2>1. \A i \in 0 .. n : i \in G
    <3> HIDE DEF G
    <3> QED
      BY <1>1, <1>2, CountUp
  <2> HIDE DEF G
  <2> QED
    BY <2>1
<1>4. PICK f \in [0 .. n -> Q] : Good(n, f)
  BY <1>3
<1>5. Stepping(f, n, Q, base, step)
  BY <1>4 DEF Stepping
<1> QED
  BY <1>5

(* The loop of MoveToFront.                                                 *)
PutBack(wo, base, s) == ForEach(LAMBDA acc, m : PostFront(acc, wo, m), base, s)

(* ForEach's function when messages are put back.                           *)
PutFrom(f, wo, base, s, n) ==
  f = [i \in 0 .. n |-> IF i = 0 THEN base ELSE PostFront(f[i - 1], wo, s[i])]

(* MoveToFront puts the messages back one after the other.                  *)
LEMMA PutSteps ==
  ASSUME NEW wo \in WindowOwners, NEW base \in Queues, NEW s \in Seq(Messages),
         NEW n \in Nat, n = Len(s)
  PROVE  \E f : /\ f[0] = base /\ PutBack(wo, base, s) = f[n]
                /\ \A i \in 1 .. n : f[i] = PostFront(f[i - 1], wo, s[i])
<1>1. ASSUME NEW q \in Queues, NEW m \in Messages PROVE PostFront(q, wo, m) \in Queues
  <2>1. Len(q.messages) \in Nat
    BY QueueParts, LenProperties
  <2>2. 1 \in 1 .. Len(q.messages) + 1 /\ NoOwner \in Owners \cup {NoOwner}
    BY <2>1
  <2> QED
    BY <2>2, InsertFacts DEF PostFront
<1>2. \A i \in 1 .. n : s[i] \in Messages
  BY ElementOfSeq
<1> DEFINE step == [q \in Queues |-> [i \in 1 .. n |-> PostFront(q, wo, s[i])]]
<1>3. step \in [Queues -> [1 .. n -> Queues]]
  BY <1>1, <1>2
<1>4. \A q \in Queues, i \in 1 .. n : step[q][i] = PostFront(q, wo, s[i])
  OBVIOUS
<1> HIDE DEF step
<1>5. PICK f \in [0 .. n -> Queues] :
        f[0] = base /\ \A i \in 1 .. n : f[i] = step[f[i - 1]][i]
  <2>1. PICK f : Stepping(f, n, Queues, base, step)
    BY <1>3, StepsExist
  <2> QED
    BY <2>1 DEF Stepping
<1>6. \A i \in 0 .. n : f[i] = IF i = 0 THEN base ELSE PostFront(f[i - 1], wo, s[i])
  <2>1. ASSUME NEW i \in 1 .. n PROVE f[i] = PostFront(f[i - 1], wo, s[i])
    <3>1. f[i - 1] \in Queues
      BY <1>5
    <3> QED
      BY <1>4, <1>5, <3>1
  <2> QED
    BY <1>5, <2>1
<1>7. PutFrom(f, wo, base, s, n)
  <2>1. f = [i \in 0 .. n |-> f[i]]
    BY <1>5
  <2> QED
    BY <1>6, <2>1 DEF PutFrom
<1> DEFINE g == CHOOSE f_1 : PutFrom(f_1, wo, base, s, n)
<1>8. PutFrom(g, wo, base, s, n)
  BY <1>7
<1>9. PutBack(wo, base, s) = g[n]
  BY DEF PutBack, ForEach, PutFrom
<1> HIDE DEF g
<1>10. g[0] = base /\ \A i \in 1 .. n : g[i] = PostFront(g[i - 1], wo, s[i])
  BY <1>8 DEF PutFrom
<1> QED
  BY <1>9, <1>10

(* The queue r while the messages of S go back to the front of q without    *)
(* them: those put back so far are back, and S comes before the others.     *)
Returning(q, r, S, back, wo) ==
  /\ Basic(r, wo) /\ r.nextId = q.nextId
  /\ Queued(r) = (Queued(q) \ S) \cup back
  /\ \A x, y : Ahead(r.messages, x, y) =>
       Ahead(q.messages, x, y) \/ (x \in S /\ y \notin S)

(* One message goes back.                                                   *)
LEMMA ReturnOne ==
  ASSUME NEW q, NEW wo \in WindowOwners, Basic(q, wo), NEW S \in SUBSET Queued(q),
         NEW back \in SUBSET S, NEW r, Returning(q, r, S, back, wo),
         NEW m \in S, m \notin back, \A y \in back : Ahead(q.messages, m, y)
  PROVE  Returning(q, PostFront(r, wo, m), S, back \cup {m}, wo)
<1> DEFINE p == Insert(r, wo, m, NoOwner, 1)
           new == Numbering(r, m)
<1>1. /\ q \in Queues /\ q.messages \in Seq(Messages) /\ q.nextId \in Nat
      /\ Distinct(q.messages) /\ Queued(q) = ToSet(q.messages)
      /\ \A x \in Queued(q) : x.id \in 1 .. q.nextId - 1
      /\ Queued(q) \subseteq Messages
  BY QueueParts DEF Basic, Numbered, Queued
<1>2. /\ Basic(r, wo) /\ r.nextId = q.nextId /\ Queued(r) = (Queued(q) \ S) \cup back
      /\ \A x, y : Ahead(r.messages, x, y) =>
           Ahead(q.messages, x, y) \/ (x \in S /\ y \notin S)
  BY DEF Returning
<1>3. \A x, y \in Queued(q) : x.id = y.id => x = y
  BY <1>1, DistinctMember
<1>4. m \in Queued(q) /\ m \in Messages /\ m.id \in 1 .. q.nextId - 1 /\ m \notin Queued(r)
  BY <1>1, <1>2
<1>5. \A x \in Queued(r) : x.id # m.id
  BY <1>2, <1>3, <1>4
<1>6. m.id \in Nat /\ m.id # 0 /\ m.id < r.nextId
  BY <1>1, <1>2, <1>4
<1>7. new = m
  BY <1>4, <1>6 DEF Numbering, Messages
<1>8. r.messages \in Seq(Messages) /\ Queued(r) = ToSet(r.messages) /\ Len(r.messages) \in Nat
  BY <1>2, QueueParts, LenProperties DEF Basic, Queued
<1>9. 1 \in 1 .. Len(r.messages) + 1 /\ NoOwner \in Owners \cup {NoOwner}
  BY <1>8
<1>10. /\ Basic(p, wo)
       /\ p.messages = InsertAt(r.messages, 1, new)
       /\ p.nextId = IF m.id = 0 THEN r.nextId + 1 ELSE r.nextId
       /\ Queued(p) = Queued(r) \cup {new}
  <2>1. Free(r, m)
    BY <1>5, <1>6 DEF Free
  <2>2. Basic(r, wo) /\ m \in Messages
    BY <1>2, <1>4
  <2>3. Gains(r, p, m, 1, wo)
    BY <1>9, <2>1, <2>2, InsertBasic
  <2> QED
    BY <2>3 DEF Gains
<1>11. /\ \A x, y : Ahead(InsertAt(r.messages, 1, m), x, y)
                      => Ahead(r.messages, x, y) \/ x = m \/ y = m
       /\ m \notin ToSet(r.messages)
            => \A x : ~Ahead(InsertAt(r.messages, 1, m), x, m)
  BY <1>4, <1>8, <1>9, InsertList
<1>12. p = PostFront(r, wo, m)
  BY DEF PostFront
<1> HIDE DEF p, new
<1>13. ASSUME NEW x, NEW y, Ahead(p.messages, x, y)
       PROVE  Ahead(q.messages, x, y) \/ (x \in S /\ y \notin S)
  <2>1. Ahead(InsertAt(r.messages, 1, m), x, y)
    BY <1>7, <1>10, <1>13
  <2>2. y # m
    BY <1>4, <1>8, <1>11, <2>1
  <2>3. CASE x = m
    <3>1. p.messages \in Seq(Messages) /\ Queued(p) = ToSet(p.messages)
      BY <1>10, QueueParts DEF Basic, Queued
    <3>2. y \in Queued(p)
      BY <1>13, <3>1, AheadMembers
    <3>3. y \in Queued(r)
      BY <1>7, <1>10, <2>2, <3>2
    <3> QED
      BY <1>2, <2>3, <3>3
  <2>4. CASE x # m
    BY <1>2, <1>11, <2>1, <2>2, <2>4
  <2> QED
    BY <2>3, <2>4
<1> QED
  BY <1>2, <1>6, <1>7, <1>10, <1>12, <1>13 DEF Returning

(* Moving messages to the front loses none and keeps the order among those  *)
(* that move and among the others.                                          *)
LEMMA MoveBasic ==
  ASSUME NEW q, NEW wo \in WindowOwners, Basic(q, wo), NEW S \in SUBSET Queued(q)
  PROVE  LET r == MoveToFront(q, wo, S)
         IN  /\ Basic(r, wo) /\ r.nextId = q.nextId /\ Queued(r) = Queued(q)
             /\ \A x, y : Ahead(r.messages, x, y) =>
                  Ahead(q.messages, x, y) \/ (x \in S /\ y \notin S)
<1> DEFINE base == Erase(q, S)
           k == Keep(q.messages, S)
           s == Reverse(k)
           r == MoveToFront(q, wo, S)
<1>1. /\ q \in Queues /\ q.messages \in Seq(Messages)
      /\ Distinct(q.messages) /\ Queued(q) = ToSet(q.messages)
  BY QueueParts DEF Basic, Numbered, Queued
<1>2. /\ Basic(base, wo) /\ base.nextId = q.nextId /\ Queued(base) = Queued(q) \ S
      /\ \A x, y : Ahead(base.messages, x, y) => Ahead(q.messages, x, y)
  BY EraseBasic
<1>3. /\ k \in Seq(Messages) /\ ToSet(k) = ToSet(q.messages) \cap S
      /\ \A x, y : Ahead(k, x, y) => Ahead(q.messages, x, y)
      /\ Distinct(k)
  BY <1>1, KeepList
<1>4. r = PutBack(wo, base, s)
  BY DEF MoveToFront, PutBack
<1> HIDE DEF k, base, r
<1>5. /\ s \in Seq(Messages) /\ Len(s) = Len(k) /\ ToSet(s) = ToSet(k)
      /\ \A i \in 1 .. Len(k) : s[i] = k[Len(k) - i + 1]
  BY <1>3, ReverseList
<1> HIDE DEF s
<1>6. PICK n \in Nat : n = Len(s) /\ n = Len(k)
  BY <1>5, LenProperties
<1>7. ToSet(s) = S
  BY <1>1, <1>3, <1>5
<1>8. /\ \A i \in 1 .. n : s[i] \in S
      /\ \A m \in S : \E i \in 1 .. n : s[i] = m
  BY <1>5, <1>6, <1>7, ToSetMember
<1>9. \A i, j \in 1 .. n : j < i => Ahead(q.messages, s[i], s[j])
  <2>1. TAKE i, j \in 1 .. n
  <2>2. HAVE j < i
  <2>3. /\ n - i + 1 \in 1 .. n /\ n - j + 1 \in 1 .. n /\ n - i + 1 < n - j + 1
    BY <2>2
  <2>4. s[i] = k[n - i + 1] /\ s[j] = k[n - j + 1]
    BY <1>5, <1>6
  <2>5. Ahead(k, s[i], s[j])
    BY <1>6, <2>3, <2>4 DEF Ahead
  <2> QED
    BY <1>3, <2>5
<1>10. base \in Queues
  BY <1>2 DEF Basic
<1>11. PICK f : /\ f[0] = base /\ PutBack(wo, base, s) = f[n]
                /\ \A i \in 1 .. n : f[i] = PostFront(f[i - 1], wo, s[i])
  BY <1>5, <1>6, <1>10, PutSteps
<1> DEFINE back(i) == {s[j] : j \in 1 .. i}
           G == {i \in 0 .. n : Returning(q, f[i], S, back(i), wo)}
<1>12. 0 \in G
  <2>1. back(0) = {}
    OBVIOUS
  <2>2. Queued(base) = (Queued(q) \ S) \cup {}
    BY <1>2
  <2>3. Returning(q, base, S, {}, wo)
    BY <1>2, <2>2 DEF Returning
  <2> HIDE DEF back
  <2>4. Returning(q, f[0], S, back(0), wo)
    BY <1>11, <2>1, <2>3
  <2> QED
    BY <2>4
<1>13. ASSUME NEW i \in 1 .. n, i - 1 \in G PROVE i \in G
  <2>1. Returning(q, f[i - 1], S, back(i - 1), wo)
    BY <1>13
  <2>2. s[i] \in S /\ back(i - 1) \in SUBSET S
    BY <1>8
  <2>3. \A y \in back(i - 1) : Ahead(q.messages, s[i], y)
    BY <1>9
  <2>4. s[i] \notin back(i - 1)
    BY <1>1, <2>3, NeverAheadOfItself
  <2>5. back(i) = back(i - 1) \cup {s[i]}
    <3>1. 1 .. i = (1 .. i - 1) \cup {i}
      OBVIOUS
    <3> QED
      BY <3>1
  <2>6. f[i] = PostFront(f[i - 1], wo, s[i])
    BY <1>11
  <2> HIDE DEF back
  <2>7. Returning(q, PostFront(f[i - 1], wo, s[i]), S, back(i - 1) \cup {s[i]}, wo)
    BY <2>1, <2>2, <2>3, <2>4, ReturnOne
  <2>8. Returning(q, f[i], S, back(i), wo)
    BY <2>5, <2>6, <2>7
  <2> QED
    BY <2>8
<1>14. Returning(q, f[n], S, back(n), wo)
  <2> HIDE DEF back
  <2>1. \A i \in 0 .. n : i \in G
    <3> HIDE DEF G
    <3> QED
      BY <1>12, <1>13, CountUp
  <2>2. n \in G
    BY <2>1
  <2> QED
    BY <2>2
<1>15. back(n) = S
  BY <1>8
<1> HIDE DEF back
<1>16. Returning(q, r, S, S, wo)
  BY <1>4, <1>11, <1>14, <1>15
<1>17. (Queued(q) \ S) \cup S = Queued(q)
  OBVIOUS
<1> QED
  BY <1>16, <1>17 DEF Returning, r

----------------------------------------------------------------------------
(* The order of messages, and what waits once.                              *)

(* What PostedInOrder and InputAfterLifecycle ask of two messages of one    *)
(* window; kids are the windows that are children.                          *)
InOrder(m, n, kids) ==
  /\ m.kind = "Posted" /\ n.kind = "Posted" => m.id < n.id
  /\ m.what \in Pointer /\ n.what \in {"size", "show"} =>
       m.id < n.id \/ (m.what = "up" /\ m.hwnd \in kids)

(* PostedInOrder and InputAfterLifecycle, for all messages.                 *)
Orderly(q, kids) ==
  \A m, n : Ahead(q.messages, m, n) /\ m.hwnd = n.hwnd => InOrder(m, n, kids)

(* made are the windows there are or were.                                  *)
Known(q, made) ==
  \A m \in Queued(q) : /\ m.hwnd = NoWindow \/ m.hwnd \in made
                       /\ m.what \in Pointer => m.hwnd # NoWindow

(* Coalesced and TouchesDoNotOverlap.                                       *)
Single(q) ==
  \A m, n \in Queued(q) :
    /\ m.what = "down" /\ n.what = "down" => m = n
    /\ m.hwnd = n.hwnd /\ m.what = n.what /\ m.what \in {"paint", "erase"} => m = n

(* The invariant of the queue.                                              *)
Good(q, wo, made, kids) ==
  Basic(q, wo) /\ Known(q, made) /\ Orderly(q, kids) /\ Single(q)

(* From q to r nothing comes, and the messages of a window keep their order. *)
Thins(q, r, wo) ==
  /\ Basic(r, wo) /\ r.nextId = q.nextId /\ Queued(r) \subseteq Queued(q)
  /\ \A x, y : Ahead(r.messages, x, y) /\ x.hwnd = y.hwnd => Ahead(q.messages, x, y)

(* Taking messages away, or moving a window's to the front, breaks nothing. *)
LEMMA ThinGood ==
  ASSUME NEW wo, NEW made, NEW kids, NEW q, Good(q, wo, made, kids), NEW r, Thins(q, r, wo)
  PROVE  Good(r, wo, made, kids)
<1>1. Orderly(r, kids)
  BY DEF Good, Thins, Orderly
<1>2. Known(r, made) /\ Single(r)
  BY DEF Good, Thins, Known, Single
<1> QED
  BY <1>1, <1>2 DEF Good, Thins

(* Erasing takes messages away.                                             *)
LEMMA EraseThins ==
  ASSUME NEW q, NEW wo, Basic(q, wo), NEW S \in SUBSET Queued(q)
  PROVE  Thins(q, Erase(q, S), wo) /\ Queued(Erase(q, S)) = Queued(q) \ S
<1> DEFINE r == Erase(q, S)
<1>1. /\ Basic(r, wo) /\ r.nextId = q.nextId /\ Queued(r) = Queued(q) \ S
      /\ \A m, n : Ahead(r.messages, m, n) => Ahead(q.messages, m, n)
  BY EraseBasic
<1> HIDE DEF r
<1>2. Thins(q, r, wo)
  BY <1>1 DEF Thins
<1> QED
  BY <1>1, <1>2 DEF r

(* Moving the messages of a window to the front keeps the order within      *)
(* every window.                                                            *)
LEMMA MoveThins ==
  ASSUME NEW q, NEW wo \in WindowOwners, Basic(q, wo), NEW w
  PROVE  LET r == MoveToFront(q, wo, {m \in Queued(q) : m.hwnd = w})
         IN  Thins(q, r, wo) /\ Queued(r) = Queued(q)
<1> DEFINE S == {m \in Queued(q) : m.hwnd = w}
           r == MoveToFront(q, wo, S)
<1>1. S \in SUBSET Queued(q)
  OBVIOUS
<1>2. /\ Basic(r, wo) /\ r.nextId = q.nextId /\ Queued(r) = Queued(q)
      /\ \A x, y : Ahead(r.messages, x, y) =>
           Ahead(q.messages, x, y) \/ (x \in S /\ y \notin S)
  <2> HIDE DEF S
  <2> QED
    BY <1>1, MoveBasic
<1>3. r.messages \in Seq(Messages) /\ Queued(r) = ToSet(r.messages)
  BY <1>2, QueueParts DEF Basic, Queued
<1> HIDE DEF r
<1>4. ASSUME NEW x, NEW y, Ahead(r.messages, x, y), x.hwnd = y.hwnd
      PROVE  Ahead(q.messages, x, y)
  <2>1. x \in Queued(q) /\ y \in Queued(q)
    BY <1>2, <1>3, <1>4, AheadMembers
  <2> QED
    BY <1>2, <1>4, <2>1
<1>5. Thins(q, r, wo)
  BY <1>2, <1>4 DEF Thins
<1> QED
  BY <1>2, <1>5 DEF r

(* m may be queued as the i-th message.                                     *)
Fits(q, m, i, made, kids) ==
  /\ m \in Messages /\ m.id = 0 /\ i \in 1 .. Len(q.messages) + 1
  /\ m.hwnd = NoWindow \/ m.hwnd \in made
  /\ m.what \in Pointer => m.hwnd # NoWindow
  /\ m.kind = "Posted" => i = Len(q.messages) + 1
  /\ m.what \in {"size", "show"} => m.kind = "Posted"
  /\ m.what \in {"paint", "erase"} =>
       \A x \in Queued(q) : ~(x.hwnd = m.hwnd /\ x.what = m.what)
  /\ m.what = "down" => \A x \in Queued(q) : x.what # "down"
  /\ m.what \in Pointer => \/ i = Len(q.messages) + 1
                           \/ \A x \in Queued(q) : x.hwnd = m.hwnd => x.what \notin {"size", "show"}
                           \/ m.what = "up" /\ m.hwnd \in kids

(* From q to r there is one message more, like m.                           *)
Grows(q, r, m) ==
  /\ r.nextId = q.nextId + 1
  /\ \A x \in Queued(q) : x \in Queued(r)
  /\ \A x \in Queued(r) : x \in Queued(q) \/ (x.hwnd = m.hwnd /\ x.what = m.what)

(* A message that fits breaks nothing.                                      *)
LEMMA InsertGood ==
  ASSUME NEW wo \in WindowOwners, NEW made, NEW kids, NEW q, Good(q, wo, made, kids),
         NEW m, NEW i, Fits(q, m, i, made, kids), NEW explicit \in Owners \cup {NoOwner}
  PROVE  LET r == Insert(q, wo, m, explicit, i)
         IN  Good(r, wo, made, kids) /\ Grows(q, r, m)
<1> DEFINE r == Insert(q, wo, m, explicit, i)
           new == Numbering(q, m)
<1>1. Basic(q, wo) /\ Known(q, made) /\ Orderly(q, kids) /\ Single(q)
  BY DEF Good
<1>2. /\ q.nextId \in Nat /\ q.messages \in Seq(Messages) /\ Queued(q) = ToSet(q.messages)
      /\ Queued(q) \subseteq Messages /\ \A x \in Queued(q) : x.id \in 1 .. q.nextId - 1
      /\ Distinct(q.messages)
  BY <1>1, QueueParts DEF Basic, Numbered, Queued
<1>3. m \in Messages /\ m.id = 0 /\ i \in 1 .. Len(q.messages) + 1 /\ Free(q, m)
  BY DEF Fits, Free
<1>4. Gains(q, r, m, i, wo)
  BY <1>1, <1>3, InsertBasic
<1>5. /\ new.id = q.nextId /\ new.hwnd = m.hwnd /\ new.what = m.what /\ new.kind = m.kind
      /\ new.sender = m.sender
  BY <1>3 DEF Numbering, Messages
<1> HIDE DEF r, new
<1>6. /\ Basic(r, wo) /\ new \in Messages /\ r.messages = InsertAt(q.messages, i, new)
      /\ r.nextId = q.nextId + 1
      /\ Queued(r) = Queued(q) \cup {new} /\ \A x \in Queued(q) : x.id # new.id
  BY <1>3, <1>4 DEF Gains, new
<1>7. Grows(q, r, m)
  BY <1>5, <1>6 DEF Grows
<1>8. Known(r, made)
  BY <1>1, <1>5, <1>6 DEF Known, Fits
<1>9. Single(r)
  <2>1. \A x \in Queued(q) : /\ ~(x.what = "down" /\ new.what = "down")
                             /\ ~(/\ x.hwnd = new.hwnd /\ x.what = new.what
                                  /\ new.what \in {"paint", "erase"})
    BY <1>5 DEF Fits
  <2> QED
    BY <1>1, <1>6, <2>1 DEF Single
<1>10. ASSUME NEW x, NEW y, Ahead(r.messages, x, y), x.hwnd = y.hwnd
       PROVE  InOrder(x, y, kids)
  <2>1. r.messages \in Seq(Messages) /\ Distinct(r.messages) /\ Queued(r) = ToSet(r.messages)
    BY <1>6, QueueParts DEF Basic, Numbered, Queued
  <2>2. x \in Queued(r) /\ y \in Queued(r) /\ x # y
    BY <1>10, <2>1, AheadMembers, NeverAheadOfItself
  <2>3. new \notin Queued(q)
    BY <1>6
  <2> DEFINE list == InsertAt(q.messages, i, new)
  <2>4. /\ \A a, b : Ahead(list, a, b) => Ahead(q.messages, a, b) \/ a = new \/ b = new
        /\ i = Len(q.messages) + 1 => \A b : ~Ahead(list, new, b)
    BY <1>2, <1>3, <1>6, <2>3, InsertList
  <2>5. list = r.messages
    BY <1>6
  <2> HIDE DEF list
  <2>6. CASE x # new /\ y # new
    BY <1>1, <1>10, <2>4, <2>5, <2>6 DEF Orderly
  <2>7. CASE y = new
    <3>1. x \in Queued(q)
      BY <1>6, <2>2, <2>7
    <3>2. x.id < y.id
      BY <1>2, <1>5, <2>7, <3>1
    <3> QED
      BY <3>2 DEF InOrder
  <2>8. CASE x = new
    <3>1. i # Len(q.messages) + 1
      BY <1>10, <2>4, <2>5, <2>8
    <3>2. y \in Queued(q)
      BY <1>6, <2>2, <2>8
    <3>3. x.kind # "Posted"
      BY <1>5, <2>8, <3>1 DEF Fits
    <3>4. x.what \in Pointer /\ y.what \in {"size", "show"} => x.what = "up" /\ x.hwnd \in kids
      BY <1>5, <1>10, <2>8, <3>1, <3>2 DEF Fits
    <3> QED
      BY <3>3, <3>4 DEF InOrder
  <2> QED
    BY <2>6, <2>7, <2>8
<1>11. Orderly(r, kids)
  BY <1>10 DEF Orderly
<1> QED
  BY <1>6, <1>7, <1>8, <1>9, <1>11 DEF Good, r

----------------------------------------------------------------------------
(* Queueing, operation by operation.                                        *)

(* The last place of a queue, and the place a scan finds.                   *)
LEMMA Places ==
  ASSUME NEW q, q.messages \in Seq(Messages), NEW S
  PROVE  /\ Len(q.messages) \in Nat
         /\ Len(q.messages) + 1 \in 1 .. Len(q.messages) + 1
         /\ 1 \in 1 .. Len(q.messages) + 1
         /\ FirstPlace(q, S) \in 1 .. Len(q.messages) + 1
<1> DEFINE len == Len(q.messages)
           I == {i \in 1 .. len : q.messages[i] \in S}
<1>1. len \in Nat
  BY LenProperties
<1>2. I # {} => Min(I) \in I
  <2>1. I \in SUBSET Nat
    BY <1>1
  <2> HIDE DEF I
  <2> QED
    BY <2>1, MinMember
<1>3. FirstPlace(q, S) = IF I # {} THEN (IF Min(I) = 0 THEN len + 1 ELSE Min(I)) ELSE len + 1
  BY DEF FirstPlace, SelectInSeq
<1> HIDE DEF len
<1>4. I \subseteq 1 .. len
  OBVIOUS
<1> HIDE DEF I
<1>5. FirstPlace(q, S) \in 1 .. len + 1
  <2>1. CASE I # {}
    <3>1. Min(I) \in 1 .. len
      BY <1>2, <1>4, <2>1
    <3> QED
      BY <1>1, <1>3, <2>1, <3>1
  <2>2. CASE I = {}
    BY <1>1, <1>3, <2>2
  <2> QED
    BY <2>1, <2>2
<1> QED
  BY <1>1, <1>5 DEF len

(* What a queue that is good is, in parts.                                  *)
LEMMA GoodParts ==
  ASSUME NEW wo, NEW made, NEW kids, NEW q, Good(q, wo, made, kids)
  PROVE  /\ Basic(q, wo) /\ q \in Queues /\ q.messages \in Seq(Messages)
         /\ Len(q.messages) \in Nat /\ Queued(q) \subseteq Messages
         /\ Queued(q) = ToSet(q.messages)
BY QueueParts, LenProperties DEF Good, Basic, Queued

(* The windows a message may have.                                          *)
Made(made) == made \cup {NoWindow}

(* Posting at the end.                                                      *)
LEMMA PostBackGood ==
  ASSUME NEW wo \in WindowOwners, NEW made, NEW kids, NEW q, Good(q, wo, made, kids),
         NEW w \in Parents, w \in Made(made), NEW kind \in Kinds,
         NEW what \in Whats \ {"paint", "erase", "down"}, what \in Pointer => w # NoWindow,
         what \in {"size", "show"} => kind = "Posted",
         NEW explicit \in Owners \cup {NoOwner}
  PROVE  LET m == [Message(w, what) EXCEPT !.kind = kind]
             r == PostBack(q, wo, m, explicit)
         IN  Good(r, wo, made, kids) /\ Grows(q, r, m)
<1> DEFINE m == [Message(w, what) EXCEPT !.kind = kind]
           i == Len(q.messages) + 1
           r == Insert(q, wo, m, explicit, i)
<1>1. i \in 1 .. Len(q.messages) + 1
  BY GoodParts
<1>2. /\ m \in Messages /\ m.id = 0 /\ m.hwnd = w /\ m.what = what /\ m.kind = kind
  BY DEF Message, Messages
<1> HIDE DEF m
<1>3. Fits(q, m, i, made, kids)
  BY <1>1, <1>2 DEF Fits, Made
<1> HIDE DEF i
<1>4. Good(r, wo, made, kids) /\ Grows(q, r, m)
  BY <1>3, InsertGood
<1>5. r = PostBack(q, wo, m, explicit)
  BY DEF PostBack, i
<1> HIDE DEF r
<1> QED
  BY <1>4, <1>5 DEF m

(* Post, of a message that is neither input nor painting.                   *)
LEMMA PostGood ==
  ASSUME NEW wo \in WindowOwners, NEW made, NEW kids, NEW q, Good(q, wo, made, kids),
         NEW w \in Parents, w \in Made(made),
         NEW what \in Whats \ (Pointer \cup {"paint", "erase"})
  PROVE  Good(Post(q, wo, Message(w, what)), wo, made, kids)
<1>1. [Message(w, what) EXCEPT !.kind = "Posted"] = Message(w, what)
  BY DEF Message
<1>2. "Posted" \in Kinds /\ NoOwner \in Owners \cup {NoOwner} /\ "down" \in Pointer
  BY DEF Kinds, Pointer
<1> DEFINE m == [Message(w, what) EXCEPT !.kind = "Posted"]
<1>3. Good(PostBack(q, wo, m, NoOwner), wo, made, kids)
  BY <1>2, PostBackGood
<1> HIDE DEF m
<1>4. m = Message(w, what)
  BY <1>1 DEF m
<1> QED
  BY <1>3, <1>4 DEF Post

(* hasQueued guards what is queued once.                                    *)
LEMMA PostOnceGood ==
  ASSUME windowOwners \in WindowOwners, NEW made, NEW kids, NEW q,
         Good(q, windowOwners, made, kids), NEW w \in Windows, w \in made,
         NEW what \in {"paint", "erase", "show"}
  PROVE  Good(PostOnce(q, w, what), windowOwners, made, kids)
<1> DEFINE m == Message(w, what)
           i == Len(q.messages) + 1
           r == Insert(q, windowOwners, m, NoOwner, i)
<1>1. CASE HasQueued(q, w, what)
  BY <1>1 DEF PostOnce
<1>2. CASE ~HasQueued(q, w, what)
  <2>1. i \in 1 .. Len(q.messages) + 1
    BY GoodParts
  <2>2. /\ m \in Messages /\ m.id = 0 /\ m.hwnd = w /\ m.what = what /\ m.kind = "Posted"
    BY DEF Message, Messages, Parents, Whats, Kinds
  <2>3. what \notin Pointer /\ what # "down" /\ w # NoWindow
    BY GweAssumption DEF Pointer
  <2>4. \A x \in Queued(q) : ~(x.hwnd = w /\ x.what = what)
    BY <1>2 DEF HasQueued, MessagesOf
  <2>5. PostOnce(q, w, what) = r
    BY <1>2 DEF PostOnce, Post, PostBack
  <2> HIDE DEF m
  <2>6. Fits(q, m, i, made, kids)
    BY <2>1, <2>2, <2>3, <2>4 DEF Fits
  <2> HIDE DEF i
  <2>7. Good(r, windowOwners, made, kids)
    BY <2>6, InsertGood
  <2> QED
    BY <2>5, <2>7
<1> QED
  BY <1>1, <1>2

(* The windows of ws that live are among those made.                        *)
LiveIn(ws, made) == \A w \in Windows : ws[w].state = "live" => w \in made

(* queueGuestPaint queues erase and paint once.                             *)
LEMMA GuestPaintGood ==
  ASSUME windowOwners \in WindowOwners, NEW made, NEW kids, NEW q,
         Good(q, windowOwners, made, kids), NEW ws, LiveIn(ws, made), NEW w \in Parents
  PROVE  Good(QueueGuestPaint(q, ws, w), windowOwners, made, kids)
<1>1. CASE Visible(ws, w)
  <2>1. w \in Windows /\ w \in made
    BY <1>1 DEF Visible, Live, Parents, LiveIn
  <2>2. Good(PostOnce(q, w, "erase"), windowOwners, made, kids)
    BY <2>1, PostOnceGood
  <2>3. Good(PostOnce(PostOnce(q, w, "erase"), w, "paint"), windowOwners, made, kids)
    BY <2>1, <2>2, PostOnceGood
  <2> QED
    BY <1>1, <2>3 DEF QueueGuestPaint
<1>2. CASE ~Visible(ws, w)
  BY <1>2 DEF QueueGuestPaint
<1> QED
  BY <1>1, <1>2

(* A function that steps within Q ends in Q.                                *)
LEMMA StepsStay ==
  ASSUME NEW n \in Nat, NEW Q, NEW g, g[0] \in Q, \A i \in 1 .. n : g[i - 1] \in Q => g[i] \in Q
  PROVE  g[n] \in Q
<1> DEFINE G == {i \in 0 .. n : g[i] \in Q}
<1>1. 0 \in G /\ \A i \in 1 .. n : i - 1 \in G => i \in G
  OBVIOUS
<1>2. \A i \in 0 .. n : i \in G
  <2> HIDE DEF G
  <2> QED
    BY <1>1, CountUp
<1>3. n \in G
  <2> HIDE DEF G
  <2> QED
    BY <1>2
<1> QED
  BY <1>3

(* The queues that are good.                                                *)
GoodQueues(wo, made, kids) == {q \in Queues : Good(q, wo, made, kids)}

(* ForEach's function in PaintInOrder.                                      *)
PaintFrom(f, ws, base, s, n) ==
  f = [i \in 0 .. n |-> IF i = 0 THEN base ELSE QueueGuestPaint(f[i - 1], ws, s[i])]

(* Painting windows one after the other.                                    *)
LEMMA PaintInOrderGood ==
  ASSUME windowOwners \in WindowOwners, NEW made, NEW kids, NEW base,
         Good(base, windowOwners, made, kids), NEW ws, LiveIn(ws, made),
         NEW s \in Seq(Windows)
  PROVE  Good(PaintInOrder(base, ws, s), windowOwners, made, kids)
<1> DEFINE Q == GoodQueues(windowOwners, made, kids)
<1>1. PICK n \in Nat : n = Len(s)
  BY LenProperties
<1>2. \A i \in 1 .. n : s[i] \in Parents
  BY <1>1, ElementOfSeq DEF Parents
<1>3. ASSUME NEW q \in Q, NEW i \in 1 .. n PROVE QueueGuestPaint(q, ws, s[i]) \in Q
  <2>1. Good(q, windowOwners, made, kids)
    BY DEF GoodQueues
  <2>2. Good(QueueGuestPaint(q, ws, s[i]), windowOwners, made, kids)
    BY <1>2, <2>1, GuestPaintGood
  <2> QED
    BY <2>2, GoodParts DEF GoodQueues
<1>4. base \in Q
  BY GoodParts DEF GoodQueues
<1> HIDE DEF Q
<1> DEFINE step == [q \in Q |-> [i \in 1 .. n |-> QueueGuestPaint(q, ws, s[i])]]
<1>5. step \in [Q -> [1 .. n -> Q]]
  BY <1>3
<1>6. \A q \in Q, i \in 1 .. n : step[q][i] = QueueGuestPaint(q, ws, s[i])
  OBVIOUS
<1> HIDE DEF step
<1>7. PICK f : Stepping(f, n, Q, base, step)
  BY <1>4, <1>5, StepsExist
<1>8. PaintFrom(f, ws, base, s, n)
  <2>1. f \in [0 .. n -> Q] /\ f[0] = base /\ \A i \in 1 .. n : f[i] = step[f[i - 1]][i]
    BY <1>7 DEF Stepping
  <2>2. ASSUME NEW i \in 1 .. n PROVE f[i] = QueueGuestPaint(f[i - 1], ws, s[i])
    <3>1. f[i - 1] \in Q
      BY <2>1
    <3> QED
      BY <1>6, <2>1, <3>1
  <2>3. \A i \in 0 .. n : f[i] = IF i = 0 THEN base ELSE QueueGuestPaint(f[i - 1], ws, s[i])
    BY <2>1, <2>2
  <2>4. f = [i \in 0 .. n |-> f[i]]
    BY <2>1
  <2> QED
    BY <2>3, <2>4 DEF PaintFrom
<1> DEFINE g == CHOOSE f_1 : PaintFrom(f_1, ws, base, s, n)
<1>9. PaintFrom(g, ws, base, s, n)
  BY <1>8
<1>10. PaintInOrder(base, ws, s) = g[n]
  BY <1>1 DEF PaintInOrder, ForEach, PaintFrom
<1> HIDE DEF g
<1>11. g[0] = base /\ \A i \in 1 .. n : g[i] = QueueGuestPaint(g[i - 1], ws, s[i])
  BY <1>9 DEF PaintFrom
<1>12. g[n] \in Q
  <2>1. g[0] \in Q /\ \A i \in 1 .. n : g[i - 1] \in Q => g[i] \in Q
    BY <1>3, <1>4, <1>11
  <2> QED
    BY <2>1, StepsStay
<1> QED
  BY <1>10, <1>12 DEF Q, GoodQueues

----------------------------------------------------------------------------
(* Painting and popups.                                                     *)

(* The windows of a finite set, in the order of their handles.              *)
LEMMA HandleOrder ==
  ASSUME NEW S \in SUBSET Windows
  PROVE  InHandleOrder(S) \in Seq(Windows)
<1>1. S \in SUBSET Nat /\ IsFiniteSet(S)
  BY GweAssumption, FS_Subset
<1>2. \E s : Sorts(s, S)
  BY <1>1, SortedExists
<1>3. InHandleOrder(S) \in [1 .. Cardinality(S) -> S]
  BY <1>2 DEF Sorts, InHandleOrder
<1>4. Cardinality(S) \in Nat
  BY <1>1, FS_CardinalityType
<1> QED
  BY <1>3, <1>4, SeqDef

(* Painting a set of windows.                                               *)
LEMMA PaintAllGood ==
  ASSUME windowOwners \in WindowOwners, NEW made, NEW kids, NEW base,
         Good(base, windowOwners, made, kids), NEW ws, LiveIn(ws, made),
         NEW S \in SUBSET Windows
  PROVE  Good(PaintAll(base, ws, S), windowOwners, made, kids)
<1>1. InHandleOrder(S) \in Seq(Windows)
  BY HandleOrder
<1> QED
  BY <1>1, PaintInOrderGood DEF PaintAll

(* prioritizeQueuedWindowMessages.                                          *)
LEMMA PrioritizeGood ==
  ASSUME windowOwners \in WindowOwners, NEW made, NEW kids, NEW q,
         Good(q, windowOwners, made, kids), NEW w
  PROVE  Good(PrioritizeQueuedWindowMessages(q, w), windowOwners, made, kids)
<1> DEFINE r == MoveToFront(q, windowOwners, {m \in Queued(q) : m.hwnd = w})
<1>1. Basic(q, windowOwners)
  BY DEF Good
<1>2. Thins(q, r, windowOwners)
  BY <1>1, MoveThins
<1>3. r = PrioritizeQueuedWindowMessages(q, w)
  BY DEF PrioritizeQueuedWindowMessages
<1> HIDE DEF r
<1> QED
  BY <1>2, <1>3, ThinGood

(* ForEach's function in QueueVisiblePopupPaintsAbove.                      *)
PrioritizeFrom(f, base, s, n) ==
  f = [i \in 0 .. n |-> IF i = 0 THEN base ELSE PrioritizeQueuedWindowMessages(f[i - 1], s[i])]

(* prioritizeQueuedWindowMessages for one window after the other.           *)
LEMMA PrioritizeAllGood ==
  ASSUME windowOwners \in WindowOwners, NEW made, NEW kids, NEW base,
         Good(base, windowOwners, made, kids), NEW s \in Seq(Windows)
  PROVE  Good(ForEach(PrioritizeQueuedWindowMessages, base, s), windowOwners, made, kids)
<1> DEFINE Q == GoodQueues(windowOwners, made, kids)
<1>1. PICK n \in Nat : n = Len(s)
  BY LenProperties
<1>3. ASSUME NEW q \in Q, NEW i \in 1 .. n PROVE PrioritizeQueuedWindowMessages(q, s[i]) \in Q
  <2>1. Good(q, windowOwners, made, kids)
    BY DEF GoodQueues
  <2>2. Good(PrioritizeQueuedWindowMessages(q, s[i]), windowOwners, made, kids)
    BY <2>1, PrioritizeGood
  <2> QED
    BY <2>2, GoodParts DEF GoodQueues
<1>4. base \in Q
  BY GoodParts DEF GoodQueues
<1> HIDE DEF Q
<1> DEFINE step == [q \in Q |-> [i \in 1 .. n |-> PrioritizeQueuedWindowMessages(q, s[i])]]
<1>5. step \in [Q -> [1 .. n -> Q]]
  BY <1>3
<1>6. \A q \in Q, i \in 1 .. n : step[q][i] = PrioritizeQueuedWindowMessages(q, s[i])
  OBVIOUS
<1> HIDE DEF step
<1>7. PICK f : Stepping(f, n, Q, base, step)
  BY <1>4, <1>5, StepsExist
<1>8. PrioritizeFrom(f, base, s, n)
  <2>1. f \in [0 .. n -> Q] /\ f[0] = base /\ \A i \in 1 .. n : f[i] = step[f[i - 1]][i]
    BY <1>7 DEF Stepping
  <2>2. ASSUME NEW i \in 1 .. n PROVE f[i] = PrioritizeQueuedWindowMessages(f[i - 1], s[i])
    <3>1. f[i - 1] \in Q
      BY <2>1
    <3> QED
      BY <1>6, <2>1, <3>1
  <2>3. \A i \in 0 .. n :
          f[i] = IF i = 0 THEN base ELSE PrioritizeQueuedWindowMessages(f[i - 1], s[i])
    BY <2>1, <2>2
  <2>4. f = [i \in 0 .. n |-> f[i]]
    BY <2>1
  <2> QED
    BY <2>3, <2>4 DEF PrioritizeFrom
<1> DEFINE g == CHOOSE f_1 : PrioritizeFrom(f_1, base, s, n)
<1>9. PrioritizeFrom(g, base, s, n)
  BY <1>8
<1>10. ForEach(PrioritizeQueuedWindowMessages, base, s) = g[n]
  BY <1>1 DEF ForEach, PrioritizeFrom
<1> HIDE DEF g
<1>11. g[0] = base /\ \A i \in 1 .. n : g[i] = PrioritizeQueuedWindowMessages(g[i - 1], s[i])
  BY <1>9 DEF PrioritizeFrom
<1>12. g[n] \in Q
  <2>1. g[0] \in Q /\ \A i \in 1 .. n : g[i - 1] \in Q => g[i] \in Q
    BY <1>3, <1>4, <1>11
  <2> QED
    BY <2>1, StepsStay
<1> QED
  BY <1>10, <1>12 DEF Q, GoodQueues

(* queueVisiblePopupPaintsAbove.                                            *)
LEMMA PopupPaintsAboveGood ==
  ASSUME windowOwners \in WindowOwners, NEW made, NEW kids, NEW q,
         Good(q, windowOwners, made, kids), NEW ws, LiveIn(ws, made), NEW z, NEW w
  PROVE  Good(QueueVisiblePopupPaintsAbove(q, ws, z, w), windowOwners, made, kids)
<1> DEFINE popups == {p \in Windows : Visible(ws, p) /\ OwnedPopup(ws, p) /\ <<w, p>> \in z}
           s == Reverse(InHandleOrder(popups))
           base == PaintAll(q, ws, popups)
<1>1. popups \in SUBSET Windows
  OBVIOUS
<1>2. QueueVisiblePopupPaintsAbove(q, ws, z, w) =
        ForEach(PrioritizeQueuedWindowMessages, base, s)
  BY DEF QueueVisiblePopupPaintsAbove
<1> HIDE DEF popups
<1>3. s \in Seq(Windows)
  BY <1>1, HandleOrder, ReverseList
<1>4. Good(base, windowOwners, made, kids)
  BY <1>1, PaintAllGood
<1> HIDE DEF s, base
<1>5. Good(ForEach(PrioritizeQueuedWindowMessages, base, s), windowOwners, made, kids)
  BY <1>3, <1>4, PrioritizeAllGood
<1> QED
  BY <1>2, <1>5

(* repaintOwnerAfterStackChange.                                            *)
LEMMA RepaintOwnerGood ==
  ASSUME windowOwners \in WindowOwners, NEW made, NEW kids, NEW q,
         Good(q, windowOwners, made, kids), NEW ws, LiveIn(ws, made), NEW z,
         NEW w, ws[w].parent \in Parents
  PROVE  Good(RepaintOwner(q, ws, z, w), windowOwners, made, kids)
<1> DEFINE parent == ws[w].parent
           painted == QueueGuestPaint(q, ws, parent)
<1>1. Good(painted, windowOwners, made, kids)
  BY GuestPaintGood
<1> HIDE DEF painted
<1>2. Good(QueueVisiblePopupPaintsAbove(painted, ws, z, parent), windowOwners, made, kids)
  BY <1>1, PopupPaintsAboveGood
<1> QED
  BY <1>1, <1>2 DEF RepaintOwner, painted

(* Erasing messages.                                                        *)
LEMMA EraseGood ==
  ASSUME NEW wo, NEW made, NEW kids, NEW q, Good(q, wo, made, kids), NEW S \in SUBSET Queued(q)
  PROVE  Good(Erase(q, S), wo, made, kids)
<1>1. Basic(q, wo)
  BY DEF Good
<1>2. Thins(q, Erase(q, S), wo)
  BY <1>1, EraseThins
<1> QED
  BY <1>2, ThinGood

(* queueVisibleFullScreenPopupPaint and queueVisiblePopupPaint.             *)
LEMMA PopupPaintGood ==
  ASSUME windowOwners \in WindowOwners, NEW made, NEW kids, NEW q,
         Good(q, windowOwners, made, kids), NEW ws, LiveIn(ws, made), NEW w \in Windows
  PROVE  Good(QueuePopupPaint(q, ws, w), windowOwners, made, kids)
<1> DEFINE Shown(p) == QueueGuestPaint(PostOnce(p, w, "show"), ws, w)
           Still(p) == {m \in Queued(p) : /\ m.what = "move"
                                          /\ ~InOwnedPopupStack(ws, m.hwnd, w)}
           rest == Erase(q, {m \in Queued(q) : m.hwnd \in Replaced(ws, w)})
<1>1. CASE ~Visible(ws, w) \/ ~OwnedPopup(ws, w)
  BY <1>1 DEF QueuePopupPaint
<1>2. CASE Visible(ws, w) /\ OwnedPopup(ws, w)
  <2>1. w \in made /\ w \in Parents
    BY <1>2 DEF Visible, Live, LiveIn, Parents
  <2>2. ASSUME NEW p, Good(p, windowOwners, made, kids)
        PROVE  Good(Shown(p), windowOwners, made, kids)
    <3>1. Good(PostOnce(p, w, "show"), windowOwners, made, kids)
      BY <2>1, <2>2, PostOnceGood
    <3> QED
      BY <2>1, <3>1, GuestPaintGood
  <2>3. Good(rest, windowOwners, made, kids)
    BY EraseGood
  <2>4. Good(PrioritizeQueuedWindowMessages(Erase(Shown(q), Still(Shown(q))), w),
             windowOwners, made, kids)
    <3> DEFINE p == Shown(q)
    <3>1. Good(p, windowOwners, made, kids)
      BY <2>2
    <3> HIDE DEF p
    <3>2. Good(Erase(p, Still(p)), windowOwners, made, kids)
      BY <3>1, EraseGood
    <3>3. Good(PrioritizeQueuedWindowMessages(Erase(p, Still(p)), w), windowOwners, made, kids)
      <4> HIDE DEF Still
      <4> QED
        BY <3>2, PrioritizeGood
    <3> QED
      BY <3>3 DEF p
  <2>5. Good(PrioritizeQueuedWindowMessages(Shown(rest), w), windowOwners, made, kids)
    <3> HIDE DEF rest
    <3>1. Good(Shown(rest), windowOwners, made, kids)
      BY <2>2, <2>3
    <3> HIDE DEF Shown
    <3> QED
      BY <3>1, PrioritizeGood
  <2>6. \/ QueuePopupPaint(q, ws, w) = q
        \/ QueuePopupPaint(q, ws, w) =
             PrioritizeQueuedWindowMessages(Erase(Shown(q), Still(Shown(q))), w)
        \/ QueuePopupPaint(q, ws, w) = PrioritizeQueuedWindowMessages(Shown(rest), w)
    BY DEF QueuePopupPaint
  <2> HIDE DEF Shown, Still, rest
  <2> QED
    BY <2>4, <2>5, <2>6
<1> QED
  BY <1>1, <1>2

----------------------------------------------------------------------------
(* Timers, broadcasts, input, sent messages, retrieval.                     *)

(* SetToSeq lists the members of a finite set.                              *)
LEMMA SomeOrder ==
  ASSUME NEW T, NEW S \in SUBSET T, IsFiniteSet(S)
  PROVE  SetToSeq(S) \in Seq(T)
<1>1. PICK f : f \in Bijection(1 .. Cardinality(S), S)
  BY FS_CardinalityType DEF ExistsBijection
<1>2. f \in [1 .. Cardinality(S) -> S] /\ IsInjective(f)
  BY <1>1 DEF Bijection, Injection, IsInjective
<1>3. SetToSeq(S) \in [1 .. Cardinality(S) -> S]
  BY <1>2 DEF SetToSeq
<1>4. Cardinality(S) \in Nat
  BY FS_CardinalityType
<1> QED
  BY <1>3, <1>4, SeqDef

(* The message a timer that is due posts.                                   *)
PostTimer(q, w) ==
  IF HasQueued(q, w, "timer") THEN q
  ELSE PostBack(q, windowOwners, [Message(w, "timer") EXCEPT !.kind = "Timer"], NoOwner)

(* One timer that is due.                                                   *)
LEMMA PostTimerGood ==
  ASSUME windowOwners \in WindowOwners, NEW made, NEW kids, NEW q,
         Good(q, windowOwners, made, kids), NEW w \in Parents, w \in Made(made)
  PROVE  Good(PostTimer(q, w), windowOwners, made, kids)
<1> DEFINE m == [Message(w, "timer") EXCEPT !.kind = "Timer"]
<1>1. /\ "timer" \in Whats \ {"paint", "erase", "down"} /\ "timer" \notin Pointer
      /\ "timer" \notin {"size", "show"} /\ "Timer" \in Kinds
      /\ NoOwner \in Owners \cup {NoOwner}
  BY DEF Whats, Pointer, Kinds
<1>2. Good(PostBack(q, windowOwners, m, NoOwner), windowOwners, made, kids)
  BY <1>1, PostBackGood
<1> HIDE DEF m
<1> QED
  BY <1>2 DEF PostTimer, m

(* ForEach's function in EnqueueDueTimers.                                  *)
TimersFrom(f, base, s, n) ==
  f = [i \in 0 .. n |-> IF i = 0 THEN base ELSE PostTimer(f[i - 1], s[i])]

(* enqueueDueTimers.                                                        *)
LEMMA DueTimersGood ==
  ASSUME windowOwners \in WindowOwners, NEW made, NEW kids, NEW base,
         Good(base, windowOwners, made, kids),
         NEW due \in SUBSET (Parents \cap Made(made)), IsFiniteSet(due)
  PROVE  Good(EnqueueDueTimers(base, due), windowOwners, made, kids)
<1> DEFINE Q == GoodQueues(windowOwners, made, kids)
           s == SetToSeq(due)
<1>0. s \in Seq(Parents \cap Made(made))
  BY SomeOrder
<1> HIDE DEF s
<1>1. PICK n \in Nat : n = Len(s)
  BY <1>0, LenProperties
<1>2. \A i \in 1 .. n : s[i] \in Parents /\ s[i] \in Made(made)
  BY <1>0, <1>1, ElementOfSeq
<1>3. ASSUME NEW q \in Q, NEW i \in 1 .. n PROVE PostTimer(q, s[i]) \in Q
  <2>1. Good(q, windowOwners, made, kids)
    BY DEF GoodQueues
  <2>2. Good(PostTimer(q, s[i]), windowOwners, made, kids)
    BY <1>2, <2>1, PostTimerGood
  <2> QED
    BY <2>2, GoodParts DEF GoodQueues
<1>4. base \in Q
  BY GoodParts DEF GoodQueues
<1> HIDE DEF Q
<1> DEFINE step == [q \in Q |-> [i \in 1 .. n |-> PostTimer(q, s[i])]]
<1>5. step \in [Q -> [1 .. n -> Q]]
  BY <1>3
<1>6. \A q \in Q, i \in 1 .. n : step[q][i] = PostTimer(q, s[i])
  OBVIOUS
<1> HIDE DEF step
<1>7. PICK f : Stepping(f, n, Q, base, step)
  BY <1>4, <1>5, StepsExist
<1>8. TimersFrom(f, base, s, n)
  <2>1. f \in [0 .. n -> Q] /\ f[0] = base /\ \A i \in 1 .. n : f[i] = step[f[i - 1]][i]
    BY <1>7 DEF Stepping
  <2>2. ASSUME NEW i \in 1 .. n PROVE f[i] = PostTimer(f[i - 1], s[i])
    <3>1. f[i - 1] \in Q
      BY <2>1
    <3> QED
      BY <1>6, <2>1, <3>1
  <2>3. \A i \in 0 .. n : f[i] = IF i = 0 THEN base ELSE PostTimer(f[i - 1], s[i])
    BY <2>1, <2>2
  <2>4. f = [i \in 0 .. n |-> f[i]]
    BY <2>1
  <2> QED
    BY <2>3, <2>4 DEF TimersFrom
<1> DEFINE g == CHOOSE f_1 : TimersFrom(f_1, base, s, n)
<1>9. TimersFrom(g, base, s, n)
  BY <1>8
<1>10. EnqueueDueTimers(base, due) = g[n]
  BY <1>1 DEF EnqueueDueTimers, ForEach, TimersFrom, PostTimer, s
<1> HIDE DEF g
<1>11. g[0] = base /\ \A i \in 1 .. n : g[i] = PostTimer(g[i - 1], s[i])
  BY <1>9 DEF TimersFrom
<1>12. g[n] \in Q
  <2>1. g[0] \in Q /\ \A i \in 1 .. n : g[i - 1] \in Q => g[i] \in Q
    BY <1>3, <1>4, <1>11
  <2> QED
    BY <2>1, StepsStay
<1> QED
  BY <1>10, <1>12 DEF Q, GoodQueues

(* ForEach's function in BroadcastMessage.                                  *)
UsersFrom(f, base, s, n) ==
  f = [i \in 0 .. n |-> IF i = 0 THEN base ELSE PostUser(f[i - 1], s[i])]

(* PostMessageW.                                                            *)
LEMMA PostUserGood ==
  ASSUME windowOwners \in WindowOwners, NEW made, NEW kids, NEW q,
         Good(q, windowOwners, made, kids), NEW w \in Windows, w \in made
  PROVE  Good(PostUser(q, w), windowOwners, made, kids)
<1>1. /\ "user" \in Whats \ (Pointer \cup {"paint", "erase"})
      /\ w \in Parents /\ w \in Made(made)
  BY DEF Whats, Pointer, Parents, Made
<1> QED
  BY <1>1, PostGood DEF PostUser

(* PostMessageW to all top-level windows.                                   *)
LEMMA BroadcastGood ==
  ASSUME windowOwners \in WindowOwners, NEW made, NEW kids, NEW base,
         Good(base, windowOwners, made, kids), NEW S \in SUBSET Windows, S \subseteq made
  PROVE  Good(ForEach(PostUser, base, InHandleOrder(S)), windowOwners, made, kids)
<1> DEFINE Q == GoodQueues(windowOwners, made, kids)
           s == InHandleOrder(S)
<1>0. s \in [1 .. Cardinality(S) -> S] /\ Cardinality(S) \in Nat
  <2>1. S \in SUBSET Nat /\ IsFiniteSet(S)
    BY GweAssumption, FS_Subset
  <2>2. \E t : Sorts(t, S)
    BY <2>1, SortedExists
  <2>3. InHandleOrder(S) \in [1 .. Cardinality(S) -> S]
    BY <2>2 DEF Sorts, InHandleOrder
  <2> QED
    BY <2>1, <2>3, FS_CardinalityType
<1> HIDE DEF s
<1>1. PICK n \in Nat : n = Len(s) /\ \A i \in 1 .. n : s[i] \in S
  BY <1>0, SeqDef, LenProperties, ElementOfSeq
<1>2. \A i \in 1 .. n : s[i] \in Windows /\ s[i] \in made
  BY <1>1
<1>3. ASSUME NEW q \in Q, NEW i \in 1 .. n PROVE PostUser(q, s[i]) \in Q
  <2>1. Good(q, windowOwners, made, kids)
    BY DEF GoodQueues
  <2>2. Good(PostUser(q, s[i]), windowOwners, made, kids)
    BY <1>2, <2>1, PostUserGood
  <2> QED
    BY <2>2, GoodParts DEF GoodQueues
<1>4. base \in Q
  BY GoodParts DEF GoodQueues
<1> HIDE DEF Q
<1> DEFINE step == [q \in Q |-> [i \in 1 .. n |-> PostUser(q, s[i])]]
<1>5. step \in [Q -> [1 .. n -> Q]]
  BY <1>3
<1>6. \A q \in Q, i \in 1 .. n : step[q][i] = PostUser(q, s[i])
  OBVIOUS
<1> HIDE DEF step
<1>7. PICK f : Stepping(f, n, Q, base, step)
  BY <1>4, <1>5, StepsExist
<1>8. UsersFrom(f, base, s, n)
  <2>1. f \in [0 .. n -> Q] /\ f[0] = base /\ \A i \in 1 .. n : f[i] = step[f[i - 1]][i]
    BY <1>7 DEF Stepping
  <2>2. ASSUME NEW i \in 1 .. n PROVE f[i] = PostUser(f[i - 1], s[i])
    <3>1. f[i - 1] \in Q
      BY <2>1
    <3> QED
      BY <1>6, <2>1, <3>1
  <2>3. \A i \in 0 .. n : f[i] = IF i = 0 THEN base ELSE PostUser(f[i - 1], s[i])
    BY <2>1, <2>2
  <2>4. f = [i \in 0 .. n |-> f[i]]
    BY <2>1
  <2> QED
    BY <2>3, <2>4 DEF UsersFrom
<1> DEFINE g == CHOOSE f_1 : UsersFrom(f_1, base, s, n)
<1>9. UsersFrom(g, base, s, n)
  BY <1>8
<1>10. ForEach(PostUser, base, s) = g[n]
  BY <1>1 DEF ForEach, UsersFrom
<1> HIDE DEF g
<1>11. g[0] = base /\ \A i \in 1 .. n : g[i] = PostUser(g[i - 1], s[i])
  BY <1>9 DEF UsersFrom
<1>12. g[n] \in Q
  <2>1. g[0] \in Q /\ \A i \in 1 .. n : g[i - 1] \in Q => g[i] \in Q
    BY <1>3, <1>4, <1>11
  <2> QED
    BY <2>1, StepsStay
<1>13. Good(g[n], windowOwners, made, kids)
  BY <1>12 DEF Q, GoodQueues
<1> QED
  BY <1>10, <1>13 DEF s

(* queueInputMessage may queue what for w.                                  *)
Takes(q, w, what, made) ==
  /\ w \in Windows /\ w \in made /\ what \in Pointer \cup {"focus", "unfocus"}
  /\ what = "down" => \A x \in Queued(q) : x.what # "down"

(* queueInputMessage: input goes behind what creates and shows its window,  *)
(* and queues nothing else.                                                 *)
LEMMA QueueInputGood ==
  ASSUME windowOwners \in WindowOwners, NEW made, NEW kids, NEW q,
         Good(q, windowOwners, made, kids), NEW w, NEW what, Takes(q, w, what, made)
  PROVE  LET r == QueueInputMessage(q, w, what)
         IN  /\ Good(r, windowOwners, made, kids)
             /\ \A x \in Queued(r) : x \in Queued(q) \/ x.what = what
<1> DEFINE m == [Message(w, what) EXCEPT !.kind = "Input"]
           place == FirstPlace(q, Queued(q) \ InputPriority(q))
           end == Len(q.messages) + 1
           At(i) == Insert(q, windowOwners, m, NoOwner, i)
           lifecycle == MessagesOf(q, w, {"size", "show"}) # {}
           i == IF lifecycle THEN end ELSE place
           p == At(i)
           motion == {x \in Queued(p) : x.what = "move" /\
                        Cardinality({k \in 1 .. Len(p.messages) :
                          /\ p.messages[k].what = "move" /\ p.messages[k].hwnd = x.hwnd
                          /\ \E j \in 1 .. k - 1 : p.messages[j] = x}) >= 2}
<1>1. /\ w \in Windows /\ w \in made /\ what \in Pointer \cup {"focus", "unfocus"}
      /\ what = "down" => \A x \in Queued(q) : x.what # "down"
  BY DEF Takes
<1>2. /\ m \in Messages /\ m.id = 0 /\ m.hwnd = w /\ m.what = what /\ m.kind = "Input"
  BY <1>1 DEF Message, Messages, Parents, Whats, Pointer, Kinds
<1>3. w # NoWindow /\ what \notin {"size", "show", "paint", "erase"}
  BY <1>1, GweAssumption DEF Pointer
<1>4. i \in 1 .. Len(q.messages) + 1
  BY GoodParts, Places
<1>5. \/ i = Len(q.messages) + 1
      \/ \A x \in Queued(q) : x.hwnd = w => x.what \notin {"size", "show"}
  BY DEF MessagesOf
<1>6. QueueInputMessage(q, w, what) = Erase(p, motion)
  <2>1. QueueInputMessage(q, w, what) = CompactQueuedPointerMotion(p)
    <3>1. CASE lifecycle
      BY <3>1 DEF QueueInputMessage, PostBack
    <3>2. CASE ~lifecycle
      BY <3>2 DEF QueueInputMessage, PostAfterLeadingMatches
    <3> QED
      BY <3>1, <3>2
  <2> HIDE DEF p
  <2>2. CompactQueuedPointerMotion(p) = Erase(p, motion)
    BY DEF CompactQueuedPointerMotion
  <2> HIDE DEF motion
  <2> QED
    BY <2>1, <2>2
<1>7. motion \in SUBSET Queued(p)
  OBVIOUS
<1> HIDE DEF m, i, motion
<1>8. Fits(q, m, i, made, kids)
  BY <1>1, <1>2, <1>3, <1>4, <1>5 DEF Fits
<1>9. Good(p, windowOwners, made, kids) /\ Grows(q, p, m)
  BY <1>8, InsertGood
<1> HIDE DEF p
<1>10. Basic(p, windowOwners)
  BY <1>9 DEF Good
<1>11. /\ Thins(p, Erase(p, motion), windowOwners)
       /\ Queued(Erase(p, motion)) = Queued(p) \ motion
  BY <1>7, <1>10, EraseThins
<1>12. Good(Erase(p, motion), windowOwners, made, kids)
  BY <1>9, <1>11, ThinGood
<1>13. \A x \in Queued(Erase(p, motion)) : x \in Queued(q) \/ x.what = what
  BY <1>2, <1>9, <1>11 DEF Grows
<1> QED
  BY <1>6, <1>12, <1>13

(* SendMessageW puts the message ahead of those that are not sent.          *)
LEMMA PostSentGood ==
  ASSUME windowOwners \in WindowOwners, NEW made, NEW kids, NEW q,
         Good(q, windowOwners, made, kids), NEW w \in Windows, w \in made,
         NEW t \in Owners, NEW S
  PROVE  LET m == [Message(w, "user") EXCEPT !.kind = "Sent", !.sender = t]
         IN  Good(PostBeforeFirstMatch(q, windowOwners, m, S), windowOwners, made, kids)
<1> DEFINE m == [Message(w, "user") EXCEPT !.kind = "Sent", !.sender = t]
           i == FirstPlace(q, S)
           r == Insert(q, windowOwners, m, NoOwner, i)
<1>1. i \in 1 .. Len(q.messages) + 1
  BY GoodParts, Places
<1>2. /\ m \in Messages /\ m.id = 0 /\ m.hwnd = w /\ m.what = "user" /\ m.kind = "Sent"
  BY DEF Message, Messages, Parents, Whats, Pointer, Kinds
<1>3. r = PostBeforeFirstMatch(q, windowOwners, m, S)
  BY DEF PostBeforeFirstMatch
<1> HIDE DEF m, i
<1>4. Fits(q, m, i, made, kids)
  BY <1>1, <1>2 DEF Fits, Pointer
<1>5. Good(r, windowOwners, made, kids)
  BY <1>4, InsertGood
<1> HIDE DEF r
<1> QED
  BY <1>3, <1>5 DEF m

(* The release mirrored to a child, which may go before its window is shown. *)
LEMMA PostMirroredGood ==
  ASSUME windowOwners \in WindowOwners, NEW made, NEW kids, NEW q,
         Good(q, windowOwners, made, kids), NEW w \in Windows, w \in made, w \in kids, NEW S
  PROVE  LET m == [Message(w, "up") EXCEPT !.kind = "Input"]
         IN  Good(PostBeforeFirstMatch(q, windowOwners, m, S), windowOwners, made, kids)
<1> DEFINE m == [Message(w, "up") EXCEPT !.kind = "Input"]
           i == FirstPlace(q, S)
           r == Insert(q, windowOwners, m, NoOwner, i)
<1>1. i \in 1 .. Len(q.messages) + 1
  BY GoodParts, Places
<1>2. /\ m \in Messages /\ m.id = 0 /\ m.hwnd = w /\ m.what = "up" /\ m.kind = "Input"
      /\ w # NoWindow
  BY GweAssumption DEF Message, Messages, Parents, Whats, Pointer, Kinds
<1>3. r = PostBeforeFirstMatch(q, windowOwners, m, S)
  BY DEF PostBeforeFirstMatch
<1> HIDE DEF m, i
<1>4. Fits(q, m, i, made, kids)
  BY <1>1, <1>2 DEF Fits
<1>5. Good(r, windowOwners, made, kids)
  BY <1>4, InsertGood
<1> HIDE DEF r
<1> QED
  BY <1>3, <1>5 DEF m

(* What a retrieval finds is queued.                                        *)
LEMMA FoundIsQueued ==
  ASSUME NEW q, q.messages \in Seq(Messages), NEW wo, NEW t, NEW S
  PROVE  FirstMatchingForOwner(q, wo, t, S) \in SUBSET Queued(q)
<1> DEFINE len == Len(q.messages)
           I == {i \in 1 .. len : q.messages[i] \in S
                                  /\ OwnerForMessage(q, wo, q.messages[i]) = t}
           i == IF I # {} THEN Min(I) ELSE 0
<1>1. len \in Nat
  BY LenProperties
<1>2. I # {} => Min(I) \in I
  <2>1. I \in SUBSET Nat
    BY <1>1
  <2> HIDE DEF I
  <2> QED
    BY <2>1, MinMember
<1>3. i = 0 \/ i \in 1 .. len
  BY <1>2
<1>4. FirstMatchingForOwner(q, wo, t, S) = IF i = 0 THEN {} ELSE {q.messages[i]}
  BY DEF FirstMatchingForOwner, SelectInSeq
<1> HIDE DEF i
<1>5. \A k \in 1 .. len : q.messages[k] \in Queued(q)
  BY ToSetMember DEF Queued
<1> QED
  BY <1>3, <1>4, <1>5

----------------------------------------------------------------------------
(* Chains of parents and the z-order.                                       *)

(* The function Chain is defined by.                                        *)
ChainFrom(f, ws, w, n) ==
  f = [i \in 0 .. n |-> IF i = 0 THEN {w}
                        ELSE f[i - 1] \cup {ws[v].parent : v \in f[i - 1] \cap Windows}]

(* A chain of parents is a set of windows, so it has a length.              *)
LEMMA ChainFinite ==
  ASSUME NEW ws, \A v \in Windows : ws[v].parent \in Parents, NEW w \in Parents
  PROVE  /\ Chain(ws, w, Windows) \in SUBSET Windows
         /\ Cardinality(Chain(ws, w, Windows)) \in Nat
<1> DEFINE Q == SUBSET Parents
           Up(S) == S \cup {ws[v].parent : v \in S \cap Windows}
<1>1. PICK n \in Nat : n = Cardinality(Windows)
  BY GweAssumption, FS_CardinalityType
<1>2. \A S \in Q : Up(S) \in Q
  OBVIOUS
<1>3. {w} \in Q
  OBVIOUS
<1> DEFINE step == [S \in Q |-> [i \in 1 .. n |-> Up(S)]]
<1>4. step \in [Q -> [1 .. n -> Q]] /\ \A S \in Q, i \in 1 .. n : step[S][i] = Up(S)
  BY <1>2
<1> HIDE DEF Q, step
<1>5. PICK f : Stepping(f, n, Q, {w}, step)
  BY <1>3, <1>4, StepsExist
<1>6. ChainFrom(f, ws, w, n)
  <2>1. f \in [0 .. n -> Q] /\ f[0] = {w} /\ \A i \in 1 .. n : f[i] = step[f[i - 1]][i]
    BY <1>5 DEF Stepping
  <2>2. ASSUME NEW i \in 1 .. n PROVE f[i] = Up(f[i - 1])
    <3>1. f[i - 1] \in Q
      BY <2>1
    <3> QED
      BY <1>4, <2>1, <3>1
  <2>3. \A i \in 0 .. n : f[i] = IF i = 0 THEN {w} ELSE Up(f[i - 1])
    BY <2>1, <2>2
  <2>4. f = [i \in 0 .. n |-> f[i]]
    BY <2>1
  <2> QED
    BY <2>3, <2>4 DEF ChainFrom
<1> DEFINE g == CHOOSE f_1 : ChainFrom(f_1, ws, w, n)
<1>7. ChainFrom(g, ws, w, n)
  BY <1>6
<1>8. Chain(ws, w, Windows) = g[n] \ {NoWindow}
  BY <1>1 DEF Chain, ChainFrom
<1> HIDE DEF g
<1>9. g[0] = {w} /\ \A i \in 1 .. n : g[i] = Up(g[i - 1])
  BY <1>7 DEF ChainFrom
<1> HIDE DEF Up
<1>10. g[n] \in Q
  BY <1>2, <1>3, <1>9, StepsStay
<1>11. Chain(ws, w, Windows) \in SUBSET Windows
  BY <1>8, <1>10 DEF Q, Parents
<1> QED
  BY <1>11, GweAssumption, FS_Subset, FS_CardinalityType

(* ParentsFirst lists the windows: by depth, then by z-order, they are in   *)
(* one order.                                                               *)
LEMMA ParentsFirstOrder ==
  ASSUME NEW ws, \A v \in Windows : ws[v].parent \in Parents,
         NEW made, Orders(below, made), NEW S \in SUBSET Windows, S \subseteq made
  PROVE  ParentsFirst(ws, S) \in Seq(Windows)
<1> DEFINE depth(w) == Cardinality(Chain(ws, w, Windows))
           first(v, w) == \/ depth(v) < depth(w)
                          \/ depth(v) = depth(w) /\ <<v, w>> \in below
           R == {p \in S \X S : first(p[1], p[2])}
<1>1. \A w \in Windows : depth(w) \in Nat
  BY ChainFinite DEF Parents
<1>2. \A a, b \in S : <<a, b>> \in R <=> first(a, b)
  OBVIOUS
<1>3. /\ \A a, b, c \in S : <<a, b>> \in below /\ <<b, c>> \in below => <<a, c>> \in below
      /\ \A a, b \in S : a # b => <<a, b>> \in below \/ <<b, a>> \in below
  BY DEF Orders
<1>4. (\E t \in [1 .. Cardinality(S) -> S] : \A i, j \in DOMAIN t : i < j => first(t[i], t[j]))
        => ParentsFirst(ws, S) \in [1 .. Cardinality(S) -> S]
  BY DEF ParentsFirst
<1> HIDE DEF depth, R
<1>5. Orders(R, S)
  <2>1. ASSUME NEW a \in S, NEW b \in S, NEW c \in S, <<a, b>> \in R, <<b, c>> \in R
        PROVE  <<a, c>> \in R
    <3>1. first(a, b) /\ first(b, c) /\ depth(a) \in Nat /\ depth(b) \in Nat /\ depth(c) \in Nat
      BY <1>1, <1>2, <2>1
    <3>2. first(a, c)
      BY <1>3, <3>1
    <3> QED
      BY <1>2, <3>2
  <2>2. ASSUME NEW a \in S, NEW b \in S, a # b PROVE <<a, b>> \in R \/ <<b, a>> \in R
    <3>1. depth(a) \in Nat /\ depth(b) \in Nat
      BY <1>1
    <3>2. first(a, b) \/ first(b, a)
      BY <1>3, <2>2, <3>1
    <3> QED
      BY <1>2, <3>2
  <2> QED
    BY <2>1, <2>2 DEF Orders
<1>6. IsFiniteSet(S) /\ Cardinality(S) \in Nat
  BY GweAssumption, FS_Subset, FS_CardinalityType
<1>7. PICK s : Lists(s, R, S)
  BY <1>5, <1>6, ListExists
<1>8. s \in [1 .. Cardinality(S) -> S] /\ \A i, j \in DOMAIN s : i < j => first(s[i], s[j])
  BY <1>2, <1>7 DEF Lists
<1>9. ParentsFirst(ws, S) \in [1 .. Cardinality(S) -> S]
  BY <1>4, <1>8
<1> QED
  BY <1>6, <1>9, SeqDef

(* The z-order stays an order when a window is raised.                      *)
LEMMA RaiseOrders ==
  ASSUME NEW z, NEW ws, NEW w \in Windows, NEW made,
         Orders(z, made), NEW now, now = made \cup {w},
         now = {x \in Windows : ws[x].state # "none"}
  PROVE  Orders(Raise(z, ws, w), now)
<1> DEFINE r == Raise(z, ws, w)
<1>1. \A a, b : <<a, b>> \in r <=> (<<a, b>> \in z /\ a # w) \/ (b = w /\ a \in now /\ a # w)
  BY DEF Raise
<1> HIDE DEF r
<1>2. /\ \A a, b, c \in made : <<a, b>> \in z /\ <<b, c>> \in z => <<a, c>> \in z
      /\ \A a, b \in made : a # b => <<a, b>> \in z \/ <<b, a>> \in z
  BY DEF Orders
<1>3. ASSUME NEW a \in now, NEW b \in now, NEW c \in now, <<a, b>> \in r, <<b, c>> \in r
      PROVE  <<a, c>> \in r
  BY <1>1, <1>2, <1>3
<1>4. ASSUME NEW a \in now, NEW b \in now, a # b PROVE <<a, b>> \in r \/ <<b, a>> \in r
  BY <1>1, <1>2, <1>4
<1> QED
  BY <1>3, <1>4 DEF Orders, r

----------------------------------------------------------------------------
(* The invariant, and the calls that leave the windows alone.               *)

(* The windows there are or were.                                           *)
There(ws) == {w \in Windows : ws[w].state # "none"}

(* The windows and what is kept of them.                                    *)
Tables ==
  /\ windows \in [Windows -> WindowType] /\ windowOwners \in WindowOwners
  /\ \A w \in Windows : windows[w].state = "none" =>
       windows[w].style = "none" /\ windows[w].ownerThread = NoOwner
  /\ Orders(below, There(windows))
  /\ regions \subseteq There(windows) /\ creating \subseteq There(windows)
  /\ \A d \in destroying : d.hwnd \in There(windows)

(* The pointer remembers windows there are or were.                         *)
Remembers(p, made) ==
  /\ p \in PointerType
  /\ p.capture \in Made(made) /\ p.focused \in Made(made) /\ p.pendingChildUp \in Made(made)

(* The timers and what the pointer remembers.                               *)
Watches ==
  /\ timers \subseteq scene.timers /\ timers \subseteq Made(There(windows))
  /\ Remembers(pointer, There(windows))

(* The queue is good for the windows as they are.                           *)
Books == Good(queue, windowOwners, There(windows), Children(windows))

(* The inductive invariant.                                                 *)
GweInvariant ==
  /\ scene \in Scenes /\ queue.nextId <= scene.messages + 1
  /\ Tables /\ Watches /\ Books

(* What a call leaves as the invariant wants it.                            *)
Kept == Tables' /\ Watches' /\ Books'

(* A queue that would be good for the windows as they are.                  *)
GoodNow(q) == Good(q, windowOwners, There(windows), Children(windows))

(* What the lemmas about queues take from the invariant.                    *)
LEMMA InvariantParts ==
  ASSUME GweInvariant
  PROVE  /\ windowOwners \in WindowOwners /\ GoodNow(queue)
         /\ windows \in [Windows -> WindowType] /\ There(windows) \in SUBSET Windows
         /\ LiveIn(windows, There(windows))
         /\ scene.owners \subseteq Owners /\ scene.windows \subseteq Windows
         /\ \A w \in Windows : windows[w].parent \in Parents
BY GweAssumption DEF GweInvariant, Tables, Books, GoodNow, LiveIn, There, WindowType, Parents

(* A call that leaves the windows alone.                                    *)
LEMMA TablesStay ==
  ASSUME GweInvariant, scene' = scene, UNCHANGED windowVars, GoodNow(queue'),
         timers' \subseteq scene.timers, timers' \subseteq Made(There(windows)),
         Remembers(pointer', There(windows))
  PROVE  Kept
<1>1. /\ windows' = windows /\ windowOwners' = windowOwners /\ below' = below
      /\ regions' = regions /\ creating' = creating /\ destroying' = destroying
  BY DEF windowVars
<1>2. Tables'
  BY <1>1 DEF GweInvariant, Tables, There
<1>3. Watches'
  BY <1>1 DEF Watches, There
<1>4. Books'
  BY <1>1 DEF Books, GoodNow, There, Children
<1> QED
  BY <1>2, <1>3, <1>4 DEF Kept

(* A call that changes the queue only.                                      *)
LEMMA QueueOnly ==
  ASSUME GweInvariant, scene' = scene, UNCHANGED <<windowVars, timers, pointer>>, GoodNow(queue')
  PROVE  Kept
BY TablesStay DEF GweInvariant, Watches

(* InvalidateRect keeps the invariant.                                      *)
LEMMA InvalidateRectKeeps ==
  ASSUME GweInvariant, scene' = scene, NEW w \in Windows, InvalidateRect(w)
  PROVE  Kept
<1>1. w \in Parents
  BY DEF Parents
<1>2. GoodNow(QueueGuestPaint(queue, windows, w))
  BY <1>1, InvariantParts, GuestPaintGood DEF GoodNow
<1> QED
  BY <1>2, QueueOnly DEF InvalidateRect

(* PostMessageW to a window keeps the invariant.                            *)
LEMMA PostMessageKeeps ==
  ASSUME GweInvariant, scene' = scene, NEW w \in Windows, PostMessage(w)
  PROVE  Kept
<1>1. w \in There(windows)
  BY DEF PostMessage, There
<1>2. GoodNow(PostUser(queue, w))
  BY <1>1, InvariantParts, PostUserGood DEF GoodNow
<1> QED
  BY <1>2, QueueOnly DEF PostMessage

(* PostMessageW to hwnd 0xffff keeps the invariant.                         *)
LEMMA BroadcastKeeps ==
  ASSUME GweInvariant, scene' = scene, BroadcastMessage
  PROVE  Kept
<1> DEFINE S == {w \in Windows : Live(windows, w) /\ windows[w].parent = NoWindow}
<1>1. S \in SUBSET Windows /\ S \subseteq There(windows)
  BY DEF Live, There
<1>2. queue' = ForEach(PostUser, queue, InHandleOrder(S))
  BY DEF BroadcastMessage
<1> HIDE DEF S
<1>3. GoodNow(ForEach(PostUser, queue, InHandleOrder(S)))
  BY <1>1, InvariantParts, BroadcastGood DEF GoodNow
<1> QED
  BY <1>2, <1>3, QueueOnly DEF BroadcastMessage

(* PostMessageW to hwnd 0 keeps the invariant.                              *)
LEMMA PostThreadKeeps ==
  ASSUME GweInvariant, scene' = scene, NEW t \in Owners, PostThreadMessage(t)
  PROVE  Kept
<1> DEFINE m == [Message(NoWindow, "user") EXCEPT !.kind = "Thread"]
<1>1. /\ "user" \in Whats \ {"paint", "erase", "down"} /\ "user" \notin Pointer
      /\ "user" \notin {"size", "show"} /\ "Thread" \in Kinds /\ t \in Owners \cup {NoOwner}
      /\ NoWindow \in Parents /\ NoWindow \in Made(There(windows))
  BY DEF Whats, Pointer, Kinds, Parents, Made
<1>2. GoodNow(PostBack(queue, windowOwners, m, t))
  BY <1>1, InvariantParts, PostBackGood DEF GoodNow
<1> HIDE DEF m
<1> QED
  BY <1>2, QueueOnly DEF PostThreadMessage, m

(* PostQuitMessage keeps the invariant.                                     *)
LEMMA PostQuitKeeps ==
  ASSUME GweInvariant, scene' = scene, PostQuitMessage
  PROVE  Kept
<1>1. /\ "quit" \in Whats \ (Pointer \cup {"paint", "erase"})
      /\ NoWindow \in Parents /\ NoWindow \in Made(There(windows))
  BY DEF Whats, Pointer, Parents, Made
<1>2. GoodNow(Post(queue, windowOwners, Message(NoWindow, "quit")))
  BY <1>1, InvariantParts, PostGood DEF GoodNow
<1> QED
  BY <1>2, QueueOnly DEF PostQuitMessage

(* SendMessageW up to the park keeps the invariant.                         *)
LEMMA SendMessageKeeps ==
  ASSUME GweInvariant, scene' = scene, NEW t \in Owners, NEW w \in Windows, SendMessage(t, w)
  PROVE  Kept
<1> DEFINE m == [Message(w, "user") EXCEPT !.kind = "Sent", !.sender = t]
           S == {x \in Queued(queue) : x.sender = NoOwner}
<1>1. w \in There(windows)
  BY DEF SendMessage, GweInvariant, Tables, There
<1>2. GoodNow(PostBeforeFirstMatch(queue, windowOwners, m, S))
  BY <1>1, InvariantParts, PostSentGood DEF GoodNow
<1>3. queue' = PostBeforeFirstMatch(queue, windowOwners, m, S)
  BY DEF SendMessage
<1> HIDE DEF m, S
<1> QED
  BY <1>2, <1>3, QueueOnly DEF SendMessage

(* The timers that are due are of windows there are or were.                *)
LEMMA DueNow ==
  ASSUME GweInvariant, NEW due \in SUBSET timers
  PROVE  GoodNow(EnqueueDueTimers(queue, due))
<1>1. due \in SUBSET (Parents \cap Made(There(windows)))
  BY DEF GweInvariant, Watches, Made, Parents, There
<1>2. IsFiniteSet(Parents)
  BY GweAssumption, FS_AddElement DEF Parents
<1>3. IsFiniteSet(due)
  BY <1>1, <1>2, FS_Subset
<1> QED
  BY <1>1, <1>3, InvariantParts, DueTimersGood DEF GoodNow

(* enqueueDueTimers keeps the invariant.                                    *)
LEMMA TimersFireKeeps ==
  ASSUME GweInvariant, scene' = scene, NEW due \in SUBSET timers, TimersFire(due)
  PROVE  Kept
BY DueNow, QueueOnly DEF TimersFire

(* A host key keeps the invariant.                                          *)
LEMMA HostKeyKeeps ==
  ASSUME GweInvariant, scene' = scene, NEW w \in Windows, HostKey(w)
  PROVE  Kept
<1> DEFINE m == [Message(w, "key") EXCEPT !.kind = "Input"]
<1>1. /\ "key" \in Whats \ {"paint", "erase", "down"} /\ "key" \notin Pointer
      /\ "key" \notin {"size", "show"} /\ "Input" \in Kinds /\ NoOwner \in Owners \cup {NoOwner}
      /\ w \in Parents /\ w \in Made(There(windows))
  BY DEF Whats, Pointer, Kinds, Parents, Made, HostKey, Live, There
<1>2. GoodNow(PostBack(queue, windowOwners, m, NoOwner))
  BY <1>1, InvariantParts, PostBackGood DEF GoodNow
<1> HIDE DEF m
<1> QED
  BY <1>2, QueueOnly DEF HostKey, m

(* GetMessageW and PeekMessageW keep the invariant.                         *)
LEMMA GetMessageKeeps ==
  ASSUME GweInvariant, scene' = scene, NEW t, NEW filter, NEW remove \in BOOLEAN,
         NEW due \in SUBSET timers, GetMessage(t, filter, remove, due)
  PROVE  Kept
<1> DEFINE timed == EnqueueDueTimers(queue, due)
           away == {m \in Queued(timed) : /\ OwnerForMessage(timed, windowOwners, m) = t
                                          /\ CoveredModalInput(m)}
           open == IF ~remove THEN timed ELSE Erase(timed, away)
           found == FirstMatchingForOwner(open, windowOwners, t,
                      {m \in Queued(open) : m.hwnd \in filter /\ ~CoveredModalInput(m)})
<1>1. GoodNow(timed)
  BY DueNow
<1>2. queue' = IF remove THEN Erase(open, found) ELSE open
  BY DEF GetMessage
<1>3. away \in SUBSET Queued(timed)
  OBVIOUS
<1> HIDE DEF timed, away
<1>4. GoodNow(open)
  BY <1>1, <1>3, EraseGood DEF GoodNow
<1> HIDE DEF open
<1>5. found \in SUBSET Queued(open)
  BY <1>4, GoodParts, FoundIsQueued DEF GoodNow
<1> HIDE DEF found
<1>6. GoodNow(Erase(open, found))
  BY <1>4, <1>5, EraseGood DEF GoodNow
<1>7. GoodNow(queue')
  BY <1>2, <1>4, <1>6
<1> QED
  BY <1>7, QueueOnly DEF GetMessage

(* The parts of what the pointer remembers.                                 *)
LEMMA PointerParts ==
  ASSUME NEW p, NEW made, made \subseteq Windows, Remembers(p, made)
  PROVE  /\ p.held \in BOOLEAN /\ p.dropping \in BOOLEAN
         /\ p.capture \in Made(made) /\ p.focused \in Made(made) /\ p.pendingChildUp \in Made(made)
         /\ p = [held |-> p.held, dropping |-> p.dropping, capture |-> p.capture,
                 focused |-> p.focused, pendingChildUp |-> p.pendingChildUp]
BY DEF Remembers, PointerType

(* SetFocus keeps the invariant.                                            *)
LEMMA SetFocusKeeps ==
  ASSUME GweInvariant, scene' = scene, NEW w \in Windows, SetFocus(w)
  PROVE  Kept
<1>1. w \in There(windows) /\ w \in Parents /\ w \in Made(There(windows))
  BY DEF SetFocus, Live, There, Parents, Made
<1>2. "focus" \in Whats \ (Pointer \cup {"paint", "erase"})
  BY DEF Whats, Pointer
<1>3. GoodNow(queue')
  BY <1>1, <1>2, InvariantParts, PostGood DEF GoodNow, SetFocus
<1>4. Remembers(pointer', There(windows))
  <2>1. Remembers(pointer, There(windows)) /\ pointer' = [pointer EXCEPT !.focused = w]
    BY DEF SetFocus, GweInvariant, Watches
  <2> QED
    BY <1>1, <2>1 DEF Remembers, PointerType
<1> QED
  BY <1>3, <1>4, TablesStay DEF Watches, GweInvariant, SetFocus

(* SetTimer and KillTimer keep the invariant.                               *)
LEMMA TimerCallsKeep ==
  ASSUME GweInvariant, scene' = scene, NEW w, SetTimer(w) \/ KillTimer(w)
  PROVE  Kept
<1>1. /\ UNCHANGED <<queue, windowVars, pointer>>
      /\ timers' \subseteq timers \cup {w} /\ timers' \subseteq scene.timers
      /\ w \in timers' \ timers => w = NoWindow \/ windows[w].state # "none"
      /\ w \in scene.timers
  BY DEF SetTimer, KillTimer, GweInvariant, Watches
<1>2. scene.timers \subseteq Windows \cup {NoWindow}
  BY GweAssumption DEF GweInvariant
<1>3. timers' \subseteq Made(There(windows))
  BY <1>1, <1>2 DEF GweInvariant, Watches, Made, There
<1>4. GoodNow(queue')
  BY <1>1, InvariantParts
<1> QED
  BY <1>1, <1>3, <1>4, TablesStay DEF Watches, GweInvariant

(* SendMessageW of a button-down to a child keeps the invariant.            *)
LEMMA SendButtonDownKeeps ==
  ASSUME GweInvariant, scene' = scene, NEW w \in Windows, SendButtonDown(w)
  PROVE  Kept
<1> DEFINE m == [Message(w, "up") EXCEPT !.kind = "Input"]
           S == {x \in Queued(queue) : /\ x.what = "up" /\ x.hwnd # NoWindow
                                       /\ IsWindowOrDescendant(windows, w, x.hwnd)}
<1>1. w \in There(windows) /\ w \in Children(windows) /\ w \in Made(There(windows))
      /\ NoWindow \in Made(There(windows))
  BY DEF SendButtonDown, Live, There, Children, Made
<1>2. GoodNow(PostBeforeFirstMatch(queue, windowOwners, m, S))
  BY <1>1, InvariantParts, PostMirroredGood DEF GoodNow
<1>3. queue' = queue \/ queue' = PostBeforeFirstMatch(queue, windowOwners, m, S)
  BY DEF SendButtonDown
<1>4. \/ pointer' = [pointer EXCEPT !.pendingChildUp = NoWindow]
      \/ pointer' = [pointer EXCEPT !.pendingChildUp = w]
  BY DEF SendButtonDown
<1> HIDE DEF m, S
<1>5. GoodNow(queue')
  BY <1>2, <1>3, InvariantParts
<1>6. Remembers(pointer', There(windows))
  <2>1. Remembers(pointer, There(windows))
    BY DEF GweInvariant, Watches
  <2> QED
    BY <1>1, <1>4, <2>1 DEF Remembers, PointerType
<1>7. UNCHANGED windowVars /\ timers' = timers
  BY DEF SendButtonDown
<1> QED
  BY <1>5, <1>6, <1>7, TablesStay DEF Watches, GweInvariant

(* The input a host mouse message queues: the focus first, then the message.*)
LEMMA HostMouseQueues ==
  ASSUME GweInvariant, NEW target \in There(windows), NEW old \in Made(There(windows)),
         NEW what \in Pointer, what # "up" => ~PointerQueued(queue)
  PROVE  LET focus(q) == IF old = target THEN q
                         ELSE QueueInputMessage(
                                IF Live(windows, old)
                                THEN QueueInputMessage(q, old, "unfocus") ELSE q,
                                target, "focus")
             release(q) == IF Live(windows, old) THEN QueueInputMessage(q, old, "up") ELSE q
         IN  /\ what = "down" => GoodNow(QueueInputMessage(focus(queue), target, what))
             /\ what = "move" => GoodNow(QueueInputMessage(queue, target, what))
             /\ what = "up" => GoodNow(QueueInputMessage(release(queue), target, what))
<1> DEFINE None(q) == \A x \in Queued(q) : x.what # "down"
           made == There(windows)
           left == IF Live(windows, old) THEN QueueInputMessage(queue, old, "unfocus") ELSE queue
           focused == IF old = target THEN queue ELSE QueueInputMessage(left, target, "focus")
           released == IF Live(windows, old) THEN QueueInputMessage(queue, old, "up") ELSE queue
<1>1. /\ made \subseteq Windows /\ windowOwners \in WindowOwners /\ GoodNow(queue)
      /\ target \in Windows /\ target \in made
  BY InvariantParts DEF There
<1>2. Live(windows, old) => old \in Windows /\ old \in made
  BY DEF Live, Made, There
<1>3. ASSUME NEW q, GoodNow(q), NEW w, NEW h, Takes(q, w, h, made)
      PROVE  /\ GoodNow(QueueInputMessage(q, w, h))
             /\ h # "down" /\ None(q) => None(QueueInputMessage(q, w, h))
  BY <1>1, <1>3, QueueInputGood DEF GoodNow
<1>4. what # "up" => None(queue)
  BY DEF PointerQueued, Pointer
<1> HIDE DEF None, made
<1>5. ASSUME NEW q, NEW w, w \in Windows, w \in made, NEW h \in {"focus", "unfocus", "move", "up"}
      PROVE  Takes(q, w, h, made)
  BY <1>5 DEF Takes, Pointer
<1>6. GoodNow(left) /\ (None(queue) => None(left))
  BY <1>1, <1>2, <1>3, <1>5
<1> HIDE DEF left
<1>7. GoodNow(focused) /\ (None(queue) => None(focused))
  BY <1>1, <1>3, <1>5, <1>6
<1>8. GoodNow(released)
  BY <1>1, <1>2, <1>3, <1>5
<1> HIDE DEF focused, released
<1>9. ASSUME what = "down" PROVE GoodNow(QueueInputMessage(focused, target, what))
  <2>1. Takes(focused, target, what, made)
    BY <1>1, <1>4, <1>7, <1>9 DEF Takes, None, Pointer
  <2> QED
    BY <1>3, <1>7, <2>1
<1>10. ASSUME what = "move" PROVE GoodNow(QueueInputMessage(queue, target, what))
  BY <1>1, <1>3, <1>5, <1>10
<1>11. ASSUME what = "up" PROVE GoodNow(QueueInputMessage(released, target, what))
  BY <1>1, <1>3, <1>5, <1>8, <1>11
<1> QED
  BY <1>9, <1>10, <1>11 DEF focused, released, left

(* What the host pointer may remember after a message.                      *)
LEMMA PointerUpdates ==
  ASSUME NEW made, made \subseteq Windows, NEW p, Remembers(p, made), NEW w \in Made(made)
  PROVE  /\ Remembers([p EXCEPT !.held = FALSE, !.dropping = FALSE, !.capture = NoWindow], made)
         /\ Remembers([p EXCEPT !.held = TRUE], made)
         /\ Remembers([p EXCEPT !.dropping = TRUE], made)
         /\ Remembers([p EXCEPT !.capture = NoWindow], made)
         /\ Remembers([p EXCEPT !.capture = w, !.focused = w], made)
         /\ Remembers([p EXCEPT !.capture = NoWindow, !.pendingChildUp = NoWindow], made)
<1>1. NoWindow \in Made(made) /\ w \in Windows \cup {NoWindow} /\ p \in PointerType
  BY DEF Made, Remembers
<1>2. Remembers([p EXCEPT !.held = FALSE, !.dropping = FALSE, !.capture = NoWindow], made)
  BY <1>1 DEF Remembers, PointerType
<1>3. Remembers([p EXCEPT !.held = TRUE], made)
  BY <1>1 DEF Remembers, PointerType
<1>4. Remembers([p EXCEPT !.dropping = TRUE], made)
  BY <1>1 DEF Remembers, PointerType
<1>5. Remembers([p EXCEPT !.capture = NoWindow], made)
  BY <1>1 DEF Remembers, PointerType
<1>6. Remembers([p EXCEPT !.capture = w, !.focused = w], made)
  BY <1>1 DEF Remembers, PointerType
<1>7. Remembers([p EXCEPT !.capture = NoWindow, !.pendingChildUp = NoWindow], made)
  BY <1>1 DEF Remembers, PointerType
<1> QED
  BY <1>2, <1>3, <1>4, <1>5, <1>6, <1>7

(* r is p, pressed or not, with another window captured.                    *)
Moved(p, r, made) ==
  Remembers(r, made) /\ r.focused = p.focused /\ r.pendingChildUp = p.pendingChildUp

(* The pointer is pressed or released, and another window captured.         *)
LEMMA PointerMoves ==
  ASSUME NEW made, made \subseteq Windows, NEW p, Remembers(p, made), NEW c \in Made(made)
  PROVE  /\ Moved(p, [p EXCEPT !.held = TRUE, !.capture = c], made)
         /\ Moved(p, [p EXCEPT !.held = FALSE, !.capture = c], made)
<1>1. c \in Windows \cup {NoWindow}
  BY DEF Made
<1>2. Moved(p, [p EXCEPT !.held = TRUE, !.capture = c], made)
  BY <1>1 DEF Remembers, PointerType, Moved
<1>3. Moved(p, [p EXCEPT !.held = FALSE, !.capture = c], made)
  BY <1>1 DEF Remembers, PointerType, Moved
<1> QED
  BY <1>2, <1>3

(* A host mouse message keeps the invariant, whichever way it is taken.     *)
LEMMA HostMouseKeeps ==
  ASSUME GweInvariant, scene' = scene, NEW what \in Pointer, NEW hit \in Windows \cup {NoWindow},
         NEW refused \in BOOLEAN, hit # NoWindow => UnderPoint(hit),
         HostMouse(what, hit, refused)
  PROVE  Kept
<1> DEFINE captured == what = "up" /\ pointer.capture # NoWindow
           lost     == captured /\ ~Usable(pointer.capture)
           target   == IF captured /\ ~lost THEN pointer.capture ELSE hit
           held     == what = "down" \/ (pointer.held /\ what # "up")
           capture  == IF lost THEN NoWindow ELSE pointer.capture
           base     == [pointer EXCEPT !.held = held, !.capture = capture]
           made     == There(windows)
           focus(q) == IF pointer.focused = target THEN q
                       ELSE QueueInputMessage(
                              IF Live(windows, pointer.focused)
                              THEN QueueInputMessage(q, pointer.focused, "unfocus") ELSE q,
                              target, "focus")
           release(q) == IF Live(windows, pointer.pendingChildUp)
                         THEN QueueInputMessage(q, pointer.pendingChildUp, "up") ELSE q
<1>1. made \subseteq Windows /\ Remembers(pointer, made) /\ regions \subseteq made
  BY DEF GweInvariant, Watches, Tables, There
<1>2. /\ pointer.held \in BOOLEAN /\ pointer.dropping \in BOOLEAN
      /\ pointer.capture \in Made(made) /\ pointer.focused \in Made(made)
      /\ pointer.pendingChildUp \in Made(made)
      /\ pointer = [held |-> pointer.held, dropping |-> pointer.dropping,
                    capture |-> pointer.capture, focused |-> pointer.focused,
                    pendingChildUp |-> pointer.pendingChildUp]
  BY <1>1, PointerParts
<1>3. target # NoWindow => target \in made
  <2>1. hit # NoWindow => hit \in made
    BY <1>1 DEF UnderPoint
  <2> QED
    BY <1>2, <2>1 DEF Made
<1>4. Remembers(base, made) /\ base.focused = pointer.focused
      /\ base.pendingChildUp = pointer.pendingChildUp
  <2>1. held \in BOOLEAN
    OBVIOUS
  <2>2. capture \in Made(made)
    BY <1>2 DEF Made
  <2> HIDE DEF held, capture
  <2>3. \/ base = [pointer EXCEPT !.held = TRUE, !.capture = capture]
        \/ base = [pointer EXCEPT !.held = FALSE, !.capture = capture]
    <3>1. held = TRUE \/ held = FALSE
      BY <2>1
    <3> QED
      BY <3>1
  <2> HIDE DEF base, made
  <2>4. Moved(pointer, base, made)
    <3>1. made \subseteq Windows /\ Remembers(pointer, made) /\ capture \in Made(made)
      BY <1>1, <2>2
    <3>2. /\ Moved(pointer, [pointer EXCEPT !.held = TRUE, !.capture = capture], made)
          /\ Moved(pointer, [pointer EXCEPT !.held = FALSE, !.capture = capture], made)
      BY <3>1, PointerMoves
    <3> QED
      BY <2>3, <3>2
  <2> QED
    BY <2>4 DEF Moved
<1>5. /\ \/ pointer' = [pointer EXCEPT !.held = FALSE, !.dropping = FALSE, !.capture = NoWindow]
         \/ pointer' = [pointer EXCEPT !.held = TRUE]
         \/ pointer' = base
         \/ pointer' = [base EXCEPT !.dropping = TRUE]
         \/ pointer' = [base EXCEPT !.capture = NoWindow]
         \/ target # NoWindow /\ pointer' = [base EXCEPT !.capture = target, !.focused = target]
         \/ pointer' = [base EXCEPT !.capture = NoWindow, !.pendingChildUp = NoWindow]
      /\ \/ queue' = queue
         \/ /\ target # NoWindow /\ what = "down" /\ ~PointerQueued(queue)
            /\ queue' = QueueInputMessage(focus(queue), target, "down")
         \/ /\ target # NoWindow /\ what = "move" /\ ~PointerQueued(queue)
            /\ queue' = QueueInputMessage(queue, target, "move")
         \/ /\ target # NoWindow /\ what = "up"
            /\ queue' = QueueInputMessage(release(queue), target, "up")
      /\ UNCHANGED windowVars /\ timers' = timers
  BY <1>4 DEF HostMouse
<1> HIDE DEF base, target, made
<1>6. Remembers(pointer', made)
  <2>1. NoWindow \in Made(made)
    BY DEF Made
  <2>2. CASE target # NoWindow /\ pointer' = [base EXCEPT !.capture = target, !.focused = target]
    <3>1. target \in Made(made)
      BY <1>3, <2>2 DEF Made
    <3> QED
      BY <1>1, <1>4, <2>2, <3>1, PointerUpdates
  <2>3. /\ Remembers([pointer EXCEPT !.held = FALSE, !.dropping = FALSE,
                                     !.capture = NoWindow], made)
        /\ Remembers([pointer EXCEPT !.held = TRUE], made)
    BY <1>1, <2>1, PointerUpdates
  <2>4. /\ Remembers([base EXCEPT !.dropping = TRUE], made)
        /\ Remembers([base EXCEPT !.capture = NoWindow], made)
        /\ Remembers([base EXCEPT !.capture = NoWindow, !.pendingChildUp = NoWindow], made)
    BY <1>1, <1>4, <2>1, PointerUpdates
  <2> QED
    BY <1>4, <1>5, <2>2, <2>3, <2>4
<1>7. GoodNow(queue')
  <2>1. CASE queue' = queue
    BY <2>1, InvariantParts
  <2>2. CASE queue' # queue
    <3>1. target \in There(windows)
      BY <1>3, <1>5, <2>2 DEF made
    <3>2. /\ pointer.focused \in Made(There(windows))
          /\ pointer.pendingChildUp \in Made(There(windows))
      BY <1>2 DEF made
    <3>3. what # "up" => ~PointerQueued(queue)
      BY <1>5, <2>2
    <3>4. what = "down" => GoodNow(QueueInputMessage(focus(queue), target, what))
      BY <3>1, <3>2, <3>3, HostMouseQueues
    <3>5. what = "move" => GoodNow(QueueInputMessage(queue, target, what))
      BY <3>1, <3>2, <3>3, HostMouseQueues
    <3>6. what = "up" => GoodNow(QueueInputMessage(release(queue), target, what))
      BY <3>1, <3>2, <3>3, HostMouseQueues
    <3> HIDE DEF focus, release
    <3> QED
      BY <1>5, <2>2, <3>4, <3>5, <3>6
  <2> QED
    BY <2>1, <2>2
<1> QED
  BY <1>5, <1>6, <1>7, TablesStay DEF Watches, GweInvariant, made

----------------------------------------------------------------------------
(* The calls that change windows.                                           *)

(* Windows that are made, and owners that are forgotten, leave the queue    *)
(* as it was.                                                               *)
LEMMA GoodAfter ==
  ASSUME NEW q, NEW wo, NEW made, NEW kids, Good(q, wo, made, kids),
         NEW wo2, NEW made2, NEW kids2, made \subseteq made2, kids \subseteq kids2,
         \A v \in made : wo2[v] = wo[v] \/ wo2[v] = NoOwner
  PROVE  Good(q, wo2, made2, kids2)
<1>1. Basic(q, wo) /\ Known(q, made) /\ Orderly(q, kids) /\ Single(q)
  BY DEF Good
<1>2. Known(q, made2)
  BY <1>1 DEF Known
<1>3. Settled(q, wo2)
  BY <1>1 DEF Basic, Settled, Known
<1>4. Orderly(q, kids2)
  BY <1>1 DEF Orderly, InOrder
<1> QED
  BY <1>1, <1>2, <1>3, <1>4 DEF Good, Basic

(* s is the window r, in another state or shown differently.                *)
SameWindow(r, s) ==
  /\ s \in WindowType
  /\ s.style = r.style /\ s.ownerThread = r.ownerThread /\ s.parent = r.parent
  /\ s.state = "none" <=> r.state = "none"
  /\ s.state = "live" => r.state = "live"

(* ws has the windows there are, as they were made.                         *)
Alike(ws) ==
  ws \in [Windows -> WindowType] /\ \A v \in Windows : SameWindow(windows[v], ws[v])

(* Shown, hidden or destroyed it is the same window.                        *)
LEMMA WindowChanges ==
  ASSUME NEW r \in WindowType
  PROVE  /\ SameWindow(r, r)
         /\ SameWindow(r, [r EXCEPT !.visible = TRUE])
         /\ SameWindow(r, [r EXCEPT !.visible = FALSE])
         /\ r.state # "none" =>
              SameWindow(r, [r EXCEPT !.visible = FALSE, !.state = "destroyed"])
<1>1. SameWindow(r, r)
  BY DEF SameWindow
<1>2. SameWindow(r, [r EXCEPT !.visible = TRUE])
  BY DEF SameWindow, WindowType
<1>3. SameWindow(r, [r EXCEPT !.visible = FALSE])
  BY DEF SameWindow, WindowType
<1>4. ASSUME r.state # "none"
      PROVE  SameWindow(r, [r EXCEPT !.visible = FALSE, !.state = "destroyed"])
  BY <1>4 DEF SameWindow, WindowType
<1> QED
  BY <1>1, <1>2, <1>3, <1>4

(* What is the same window by window is alike.                             *)
LEMMA AlikeWhen ==
  ASSUME NEW ws, ws = [v \in Windows |-> ws[v]],
         \A v \in Windows : SameWindow(windows[v], ws[v])
  PROVE  Alike(ws)
BY DEF Alike, SameWindow

(* What does not change when windows are shown, hidden or destroyed.        *)
LEMMA AlikeParts ==
  ASSUME GweInvariant, NEW ws, Alike(ws)
  PROVE  /\ There(ws) = There(windows) /\ Children(ws) = Children(windows)
         /\ LiveIn(ws, There(windows)) /\ Published(ws) \subseteq There(windows)
         /\ \A v \in Windows : ws[v].parent \in Parents
<1>1. \A v \in Windows : ws[v].parent \in Parents
  BY InvariantParts DEF Alike, SameWindow
<1> QED
  BY <1>1 DEF Alike, SameWindow, There, Children, LiveIn, Published, Visible, Live

(* A call that makes no window.                                             *)
LEMMA WindowsStay ==
  ASSUME GweInvariant, scene' = scene, Alike(windows'), windowOwners' \in WindowOwners,
         Orders(below', There(windows)), regions' \subseteq There(windows),
         creating' \subseteq There(windows), \A d \in destroying' : d.hwnd \in There(windows),
         timers' \subseteq timers, Remembers(pointer', There(windows)),
         Good(queue', windowOwners', There(windows), Children(windows))
  PROVE  Kept
<1>1. There(windows') = There(windows) /\ Children(windows') = Children(windows)
  BY AlikeParts
<1>2. There(windows)' = There(windows') /\ Children(windows)' = Children(windows')
  BY DEF There, Children
<1>3. \A w \in Windows : windows'[w].state = "none" =>
        windows'[w].style = "none" /\ windows'[w].ownerThread = NoOwner
  BY DEF GweInvariant, Tables, Alike, SameWindow
<1>4. windows' \in [Windows -> WindowType]
  BY DEF Alike
<1>5. Tables'
  BY <1>1, <1>2, <1>3, <1>4 DEF Tables
<1>6. Watches'
  BY <1>1, <1>2 DEF GweInvariant, Watches
<1>7. Books'
  BY <1>1, <1>2 DEF Books
<1> QED
  BY <1>5, <1>6, <1>7 DEF Kept

(* What else the invariant says of a state.                                 *)
LEMMA Remembered ==
  ASSUME GweInvariant
  PROVE  /\ Orders(below, There(windows)) /\ regions \subseteq There(windows)
         /\ creating \subseteq There(windows) /\ \A d \in destroying : d.hwnd \in There(windows)
         /\ Remembers(pointer, There(windows)) /\ windowOwners \in WindowOwners
BY DEF GweInvariant, Tables, Watches

(* The end of CreateWindowExW keeps the invariant.                          *)
LEMMA CreateCompleteKeeps ==
  ASSUME GweInvariant, scene' = scene, NEW w \in Windows, CreateComplete(w)
  PROVE  Kept
<1> DEFINE S == Replaced(windows, w)
<1>1. windows' = Retire(windows, S)
  BY DEF CreateComplete
<1> HIDE DEF S
<1>2. Alike(windows')
  <2>1. \A v \in Windows : windows'[v] = [windows[v] EXCEPT !.visible = FALSE]
                           \/ windows'[v] = windows[v]
    BY <1>1 DEF Retire
  <2>2. \A v \in Windows : SameWindow(windows[v], windows'[v])
    BY <2>1, InvariantParts, WindowChanges
  <2>3. windows' = [v \in Windows |-> windows'[v]]
    BY <1>1 DEF Retire
  <2> QED
    BY <2>2, <2>3, AlikeWhen
<1>3. GoodNow(QueuePopupPaint(queue, windows, w))
  BY InvariantParts, PopupPaintGood DEF GoodNow
<1> QED
  BY <1>2, <1>3, Remembered, WindowsStay DEF CreateComplete, GoodNow

(* DestroyWindow up to WM_DESTROY keeps the invariant.                      *)
LEMMA DestroyWindowKeeps ==
  ASSUME GweInvariant, scene' = scene, NEW w \in Windows, DestroyWindow(w)
  PROVE  Kept
<1>1. windows' = [windows EXCEPT ![w].visible = FALSE] /\ w \in There(windows)
  BY DEF DestroyWindow, Live, There
<1>2. Alike(windows')
  <2>1. /\ windows' = [v \in Windows |-> windows'[v]]
        /\ windows'[w] = [windows[w] EXCEPT !.visible = FALSE]
        /\ \A v \in Windows : v # w => windows'[v] = windows[v]
    BY <1>1, InvariantParts
  <2>2. \A v \in Windows : windows[v] \in WindowType
    BY InvariantParts
  <2>3. \A v \in Windows : SameWindow(windows[v], windows'[v])
    BY <2>1, <2>2, WindowChanges
  <2> QED
    BY <2>1, <2>3, AlikeWhen
<1>3. GoodNow(queue')
  <2> DEFINE S == {m \in Queued(queue) : m.hwnd = w}
  <2>1. S \in SUBSET Queued(queue) /\ queue' = Erase(queue, S)
    BY DEF DestroyWindow
  <2> HIDE DEF S
  <2> QED
    BY <2>1, InvariantParts, EraseGood DEF GoodNow
<1>4. \A d \in destroying' : d.hwnd \in There(windows)
  BY <1>1, Remembered DEF DestroyWindow
<1> QED
  BY <1>2, <1>3, <1>4, Remembered, WindowsStay DEF DestroyWindow, GoodNow

(* ShowWindow keeps the invariant.                                          *)
LEMMA ShowWindowKeeps ==
  ASSUME GweInvariant, scene' = scene, NEW w \in Windows, ShowWindow(w)
  PROVE  Kept
<1>1. windows' = [windows EXCEPT ![w].visible = TRUE] /\ w \in There(windows)
  BY DEF ShowWindow, Live, There
<1>2. Alike(windows')
  <2>1. /\ windows' = [v \in Windows |-> windows'[v]]
        /\ windows'[w] = [windows[w] EXCEPT !.visible = TRUE]
        /\ \A v \in Windows : v # w => windows'[v] = windows[v]
    BY <1>1, InvariantParts
  <2>2. \A v \in Windows : windows[v] \in WindowType
    BY InvariantParts
  <2>3. \A v \in Windows : SameWindow(windows[v], windows'[v])
    BY <2>1, <2>2, WindowChanges
  <2> QED
    BY <2>1, <2>3, AlikeWhen
<1>3. GoodNow(queue')
  <2>1. /\ w \in Parents /\ w \in Made(There(windows))
        /\ "show" \in Whats \ (Pointer \cup {"paint", "erase"})
    BY <1>1 DEF Parents, Made, Whats, Pointer
  <2>2. GoodNow(Post(queue, windowOwners, Message(w, "show")))
    BY <2>1, InvariantParts, PostGood DEF GoodNow
  <2> QED
    BY <2>2, InvariantParts DEF ShowWindow
<1>4. Orders(below', There(windows))
  <2>1. There(windows) = There(windows) \cup {w}
    BY <1>1
  <2>2. There(windows) = {x \in Windows : windows[x].state # "none"}
    BY DEF There
  <2>3. Orders(Raise(below, windows, w), There(windows))
    BY <2>1, <2>2, Remembered, RaiseOrders
  <2> QED
    BY <2>3, Remembered DEF ShowWindow
<1>5. regions' \subseteq There(windows)
  BY <1>2, AlikeParts DEF ShowWindow
<1> QED
  BY <1>2, <1>3, <1>4, <1>5, Remembered, WindowsStay DEF ShowWindow, GoodNow

(* Hiding a window keeps the invariant.                                     *)
LEMMA HideWindowKeeps ==
  ASSUME GweInvariant, scene' = scene, NEW w \in Windows, HideWindow(w)
  PROVE  Kept
<1> DEFINE hidden == [windows EXCEPT ![w].visible = FALSE]
           S == {m \in Queued(queue) : /\ m.what \in {"paint", "erase", "show"}
                                       /\ m.hwnd # NoWindow
                                       /\ InOwnedPopupStack(windows, m.hwnd, w)}
           settled == Erase(queue, S)
           P == {m \in Queued(settled) : m.what \in Pointer /\ InGweStack(windows, m.hwnd, w)}
           kept == Erase(settled, P)
           shown == Post(kept, windowOwners, Message(w, "show"))
           posted == RepaintOwner(shown, hidden, below, w)
<1>1. w \in There(windows)
  BY DEF HideWindow, Live, There
<1>2. Alike(hidden)
  <2>1. /\ hidden = [v \in Windows |-> hidden[v]]
        /\ hidden[w] = [windows[w] EXCEPT !.visible = FALSE]
        /\ \A v \in Windows : v # w => hidden[v] = windows[v]
    BY InvariantParts
  <2>2. \A v \in Windows : windows[v] \in WindowType
    BY InvariantParts
  <2>3. \A v \in Windows : SameWindow(windows[v], hidden[v])
    BY <2>1, <2>2, WindowChanges
  <2> QED
    BY <2>1, <2>3, AlikeWhen
<1>3. windows' = hidden /\ pointer' = ForgetStack(w) /\ regions' = Published(hidden)
  BY DEF HideWindow
<1>4. queue' = kept \/ queue' = PaintAll(posted, hidden, Windows) \/ queue' = posted
  BY DEF HideWindow, DiscardQueuedPointerMessages, DiscardQueuedWindowUpdateMessages
<1>5. S \in SUBSET Queued(queue) /\ P \in SUBSET Queued(settled)
  OBVIOUS
<1> HIDE DEF hidden, S, P
<1>6. GoodNow(settled)
  BY <1>5, InvariantParts, EraseGood DEF GoodNow
<1> HIDE DEF settled
<1>7. GoodNow(kept)
  BY <1>5, <1>6, EraseGood DEF GoodNow
<1> HIDE DEF kept
<1>8. GoodNow(shown)
  <2>1. /\ w \in Parents /\ w \in Made(There(windows))
        /\ "show" \in Whats \ (Pointer \cup {"paint", "erase"})
    BY <1>1 DEF Parents, Made, Whats, Pointer
  <2> QED
    BY <1>7, <2>1, InvariantParts, PostGood DEF GoodNow
<1> HIDE DEF shown
<1>9. LiveIn(hidden, There(windows)) /\ hidden[w].parent \in Parents
      /\ Published(hidden) \subseteq There(windows)
  BY <1>2, AlikeParts
<1>10. GoodNow(posted)
  BY <1>8, <1>9, InvariantParts, RepaintOwnerGood DEF GoodNow
<1> HIDE DEF posted
<1>11. GoodNow(PaintAll(posted, hidden, Windows))
  BY <1>9, <1>10, InvariantParts, PaintAllGood DEF GoodNow
<1>12. GoodNow(queue')
  BY <1>4, <1>7, <1>10, <1>11
<1>13. Remembers(pointer', There(windows))
  <2>1. Remembers(pointer, There(windows)) /\ There(windows) \subseteq Windows
    BY Remembered, InvariantParts
  <2> DEFINE heir(x) == IF x # NoWindow /\ InGweStack(windows, x, w) THEN NoWindow ELSE x
  <2>2. \A x \in Made(There(windows)) : heir(x) \in Made(There(windows))
                                        /\ heir(x) \in Windows \cup {NoWindow}
    BY <2>1 DEF Made
  <2>3. ForgetStack(w) = [pointer EXCEPT !.capture = heir(pointer.capture),
                                         !.pendingChildUp = heir(pointer.pendingChildUp)]
    BY DEF ForgetStack
  <2> HIDE DEF heir
  <2> QED
    BY <1>3, <2>1, <2>2, <2>3 DEF Remembers, PointerType
<1> QED
  BY <1>2, <1>3, <1>9, <1>12, <1>13, Remembered, WindowsStay DEF HideWindow, GoodNow

(* What is forgotten when a window has been destroyed.                      *)
LEMMA FinalizeKeeps ==
  ASSUME GweInvariant, scene' = scene, NEW w \in There(windows), NEW wasVisible,
         FinalizeDestroyedWindow(w, wasVisible),
         creating' \subseteq creating, destroying' \subseteq destroying
  PROVE  Kept
<1> DEFINE gone == [windows EXCEPT ![w].visible = FALSE, ![w].state = "destroyed"]
           painted == IF wasVisible THEN QueueGuestPaint(queue, gone, windows[w].parent)
                      ELSE queue
           exposed == {v \in Windows : Visible(gone, v) /\ ~Covered(gone, below, v)}
           order == ParentsFirst(gone, exposed)
<1>1. /\ windows' = gone /\ regions' = Published(gone)
      /\ windowOwners' = [windowOwners EXCEPT ![w] = NoOwner] /\ timers' = timers \ {w}
      /\ pointer' = ForgetWindow(w) /\ below' = below
      /\ queue' = painted \/ queue' = PaintInOrder(painted, gone, order)
  BY DEF FinalizeDestroyedWindow
<1>2. Alike(gone)
  <2>1. /\ gone = [v \in Windows |-> gone[v]]
        /\ gone[w] = [windows[w] EXCEPT !.visible = FALSE, !.state = "destroyed"]
        /\ \A v \in Windows : v # w => gone[v] = windows[v]
    BY InvariantParts
  <2>2. \A v \in Windows : windows[v] \in WindowType
    BY InvariantParts
  <2>3. \A v \in Windows : SameWindow(windows[v], gone[v])
    <3>1. w \in Windows /\ windows[w].state # "none"
      BY DEF There
    <3>2. SameWindow(windows[w], [windows[w] EXCEPT !.visible = FALSE, !.state = "destroyed"])
      BY <2>2, <3>1, WindowChanges
    <3>3. SameWindow(windows[w], gone[w])
      BY <2>1, <3>2
    <3>4. \A v \in Windows : SameWindow(windows[v], windows[v])
      BY <2>2, WindowChanges
    <3> HIDE DEF gone
    <3> QED
      BY <2>1, <3>3, <3>4
  <2> QED
    BY <2>1, <2>3, AlikeWhen
<1>3. exposed \in SUBSET Windows /\ \A v \in exposed : gone[v].state = "live"
  BY DEF Visible, Live
<1> HIDE DEF gone, exposed
<1>4. LiveIn(gone, There(windows)) /\ Published(gone) \subseteq There(windows)
      /\ \A v \in Windows : gone[v].parent \in Parents
  BY <1>2, AlikeParts
<1>5. GoodNow(painted)
  <2>1. windows[w].parent \in Parents
    BY InvariantParts
  <2> QED
    BY <1>4, <2>1, InvariantParts, GuestPaintGood DEF GoodNow
<1>6. order \in Seq(Windows)
  <2>1. exposed \subseteq There(windows)
    BY <1>3, <1>4 DEF LiveIn
  <2> QED
    BY <1>3, <1>4, <2>1, Remembered, ParentsFirstOrder
<1> HIDE DEF painted, order
<1>7. GoodNow(PaintInOrder(painted, gone, order))
  BY <1>4, <1>5, <1>6, InvariantParts, PaintInOrderGood DEF GoodNow
<1>8. Good(queue', windowOwners', There(windows), Children(windows))
  <2>1. Good(queue', windowOwners, There(windows), Children(windows))
    BY <1>1, <1>5, <1>7 DEF GoodNow
  <2>2. \A v \in There(windows) : windowOwners'[v] = windowOwners[v] \/ windowOwners'[v] = NoOwner
    BY <1>1, InvariantParts DEF WindowOwners
  <2> QED
    BY <2>1, <2>2, GoodAfter
<1>9. windowOwners' \in WindowOwners
  BY <1>1, InvariantParts DEF WindowOwners
<1>10. Remembers(pointer', There(windows))
  <2>1. Remembers(pointer, There(windows)) /\ There(windows) \subseteq Windows
    BY Remembered, InvariantParts
  <2> DEFINE kept(x) == IF x = w THEN NoWindow ELSE x
  <2>2. \A x \in Made(There(windows)) : kept(x) \in Made(There(windows))
                                        /\ kept(x) \in Windows \cup {NoWindow}
    BY <2>1 DEF Made
  <2>3. ForgetWindow(w) = [pointer EXCEPT !.capture = kept(pointer.capture),
                                          !.focused = kept(pointer.focused),
                                          !.pendingChildUp = kept(pointer.pendingChildUp)]
    BY DEF ForgetWindow
  <2> HIDE DEF kept
  <2> QED
    BY <1>1, <2>1, <2>2, <2>3 DEF Remembers, PointerType
<1>11. creating' \subseteq There(windows) /\ \A d \in destroying' : d.hwnd \in There(windows)
  BY Remembered
<1>12. /\ Orders(below', There(windows)) /\ regions' \subseteq There(windows)
       /\ timers' \subseteq timers
  BY <1>1, <1>4, Remembered
<1>13. Alike(windows')
  BY <1>1, <1>2
<1> QED
  BY <1>8, <1>9, <1>10, <1>11, <1>12, <1>13, WindowsStay

(* A creation that is refused keeps the invariant.                          *)
LEMMA CreateFailsKeeps ==
  ASSUME GweInvariant, scene' = scene, NEW w, CreateFails(w)
  PROVE  Kept
<1>1. w \in There(windows)
  BY Remembered DEF CreateFails
<1> QED
  BY <1>1, FinalizeKeeps DEF CreateFails

(* The end of a destruction keeps the invariant.                            *)
LEMMA DestroyCompleteKeeps ==
  ASSUME GweInvariant, scene' = scene, NEW d, DestroyComplete(d)
  PROVE  Kept
<1>1. d.hwnd \in There(windows)
  BY Remembered DEF DestroyComplete
<1> QED
  BY <1>1, FinalizeKeeps DEF DestroyComplete

(* CreateWindowExW up to WM_NCCREATE keeps the invariant: no message has    *)
(* the new window yet.                                                      *)
LEMMA CreateWindowKeeps ==
  ASSUME GweInvariant, scene' = scene, NEW t \in Owners, NEW w \in Windows,
         NEW style \in {"plain", "child", "owned", "full"}, NEW parent \in Parents,
         NEW visible \in BOOLEAN, CreateWindow(t, w, style, parent, visible)
  PROVE  Kept
<1> DEFINE new == [state |-> "live", ownerThread |-> t, parent |-> parent, style |-> style,
                   visible |-> visible]
           made == There(windows)
<1>1. /\ windows[w].state = "none" /\ windows' = [windows EXCEPT ![w] = new]
      /\ windowOwners' = [windowOwners EXCEPT ![w] = t]
      /\ below' = Raise(below, windows', w) /\ regions' = Published(windows')
      /\ creating' = creating \cup {w} /\ destroying' = destroying
      /\ queue' = Post(queue, windowOwners', Message(w, "size"))
      /\ timers' = timers /\ pointer' = pointer
  BY DEF CreateWindow
<1>2. new \in WindowType
  BY DEF WindowType, Parents
<1>3. new.state = "live" /\ new.style = style
  OBVIOUS
<1> HIDE DEF new
<1>4. /\ windows' \in [Windows -> WindowType] /\ windowOwners' \in WindowOwners
      /\ windows'[w] = new /\ \A v \in Windows : v # w => windows'[v] = windows[v]
  BY <1>1, <1>2, InvariantParts DEF WindowOwners
<1>5. There(windows') = made \cup {w} /\ w \notin made
  BY <1>1, <1>3, <1>4 DEF There
<1>6. There(windows)' = There(windows') /\ Children(windows)' = Children(windows')
  BY DEF There, Children
<1>7. Children(windows) \subseteq Children(windows')
  BY <1>1, <1>4 DEF Children, GweInvariant, Tables
<1>8. Good(queue, windowOwners', There(windows'), Children(windows'))
  <2>1. Good(queue, windowOwners, made, Children(windows))
    BY InvariantParts DEF GoodNow
  <2>2. \A v \in made : windowOwners'[v] = windowOwners[v] \/ windowOwners'[v] = NoOwner
    BY <1>1, <1>5, InvariantParts DEF WindowOwners
  <2>3. made \subseteq There(windows')
    BY <1>5
  <2> HIDE DEF made
  <2> QED
    BY <1>7, <2>1, <2>2, <2>3, GoodAfter
<1>9. Books'
  <2>1. /\ w \in Parents /\ w \in Made(There(windows'))
        /\ "size" \in Whats \ (Pointer \cup {"paint", "erase"})
    BY <1>5 DEF Parents, Made, Whats, Pointer
  <2>2. Good(Post(queue, windowOwners', Message(w, "size")), windowOwners',
             There(windows'), Children(windows'))
    BY <1>4, <1>8, <2>1, PostGood
  <2> QED
    BY <1>1, <1>6, <2>2 DEF Books
<1>10. Orders(below', There(windows'))
  <2>1. There(windows') = {x \in Windows : windows'[x].state # "none"}
    BY DEF There
  <2>2. Orders(below, made)
    BY Remembered
  <2> HIDE DEF made
  <2> QED
    BY <1>1, <1>5, <2>1, <2>2, RaiseOrders
<1>11. regions' \subseteq There(windows')
  BY <1>1 DEF Published, Visible, Live, There
<1>12. Tables'
  <2>1. \A v \in Windows : windows'[v].state = "none" =>
          windows'[v].style = "none" /\ windows'[v].ownerThread = NoOwner
    BY <1>3, <1>4 DEF GweInvariant, Tables
  <2>2. creating' \subseteq There(windows') /\ \A d \in destroying' : d.hwnd \in There(windows')
    BY <1>1, <1>5, Remembered
  <2> QED
    BY <1>4, <1>6, <1>10, <1>11, <2>1, <2>2 DEF Tables
<1>13. Watches'
  <2>1. made \subseteq There(windows')
    BY <1>5
  <2>2. timers \subseteq scene.timers /\ timers \subseteq Made(made) /\ Remembers(pointer, made)
    BY DEF GweInvariant, Watches
  <2> HIDE DEF made
  <2>3. Made(made) \subseteq Made(There(windows'))
    BY <2>1 DEF Made
  <2>4. Remembers(pointer, There(windows'))
    BY <2>2, <2>3 DEF Remembers
  <2> QED
    BY <1>1, <1>6, <2>2, <2>3, <2>4 DEF Watches
<1> QED
  BY <1>9, <1>12, <1>13 DEF Kept

----------------------------------------------------------------------------
(* The invariant holds, and with it the properties.                         *)

(* The invariant holds at first: no window, no message.                     *)
LEMMA GweInit ==
  ASSUME Init
  PROVE  GweInvariant
<1> USE DEF Init
<1>1. scene \in Scenes /\ scene.messages \in Nat
  BY GweAssumption
<1>2. /\ queue.messages = << >> /\ queue.nextId = 1
      /\ queue.lanes = [t \in Owners |-> [k \in Kinds |-> {}]]
      /\ queue.ownerOf = [i \in {} |-> NoOwner]
      /\ queue = [messages |-> queue.messages, lanes |-> queue.lanes,
                  ownerOf |-> queue.ownerOf, nextId |-> queue.nextId]
  BY DEF EmptyQueue
<1>3. queue.nextId <= scene.messages + 1
  BY <1>1, <1>2
<1>4. There(windows) = {}
  BY DEF There
<1>5. Tables
  <2>1. windows \in [Windows -> WindowType] /\ windowOwners \in WindowOwners
    BY DEF WindowType, WindowOwners
  <2>2. Orders(below, There(windows))
    BY <1>4 DEF Orders
  <2> QED
    BY <2>1, <2>2 DEF Tables
<1>6. Watches
  <2>1. NoWindow \in Made(There(windows))
    BY DEF Made
  <2>2. Remembers(pointer, There(windows))
    BY <2>1 DEF Remembers, PointerType
  <2> QED
    BY <2>2 DEF Watches
<1>7. Books
  <2>1. Queued(queue) = {}
    BY <1>2 DEF Queued, ToSet
  <2>2. \A m, n : ~Ahead(queue.messages, m, n)
    BY <1>2 DEF Ahead
  <2>3. queue.ownerOf \in OwnerMaps
    <3>1. {} \in SUBSET Nat /\ queue.ownerOf \in [{} -> Owners]
      BY <1>2
    <3> QED
      BY <3>1 DEF OwnerMaps
  <2>4. queue.lanes \in Lanes
    BY <1>2 DEF Lanes
  <2>5. queue.messages \in Seq(Messages) /\ queue.nextId \in Nat
    BY <1>2
  <2>6. queue \in Queues
    BY <1>2, <2>3, <2>4, <2>5 DEF Queues
  <2>7. Numbered(queue)
    BY <1>2, <2>1 DEF Numbered, Distinct
  <2>8. Mirror(queue)
    BY <1>2, <2>1 DEF Mirror
  <2>9. Settled(queue, windowOwners)
    BY <2>1 DEF Settled
  <2> QED
    BY <2>1, <2>2, <2>6, <2>7, <2>8, <2>9 DEF Books, Good, Basic, Known, Orderly, Single
<1> QED
  BY <1>1, <1>3, <1>5, <1>6, <1>7 DEF GweInvariant

(* Every step keeps the invariant.                                          *)
LEMMA GweStep ==
  ASSUME GweInvariant, [Next]_vars
  PROVE  GweInvariant'
<1>1. CASE UNCHANGED vars
  <2>1. /\ windows' = windows /\ windowOwners' = windowOwners /\ below' = below
        /\ regions' = regions /\ creating' = creating /\ destroying' = destroying
        /\ timers' = timers /\ pointer' = pointer /\ scene' = scene /\ queue' = queue
    BY <1>1 DEF vars, windowVars
  <2> QED
    BY <2>1 DEF GweInvariant, Tables, Watches, Books, There, Children
<1>2. CASE Next
  <2>0. /\ scene' = scene /\ queue'.nextId <= scene.messages + 1
        /\ scene.owners \subseteq Owners /\ scene.windows \subseteq Windows
        /\ scene.styles \subseteq {"plain", "child", "owned", "full"}
        /\ scene.windows \cup {NoWindow} \subseteq Parents
        /\ scene \in Scenes
    BY <1>2, GweAssumption DEF Next, Bounded, GweInvariant, Parents
  <2>1. Kept
    <3>1. CASE WindowCalls
      <4>1. ASSUME NEW t \in scene.owners, NEW w \in scene.windows, NEW s \in scene.styles,
                   NEW p \in scene.windows \cup {NoWindow},
                   NEW v \in IF "show" \in scene.calls THEN BOOLEAN ELSE {TRUE},
                   CreateWindow(t, w, s, p, v)
            PROVE  Kept
        <5>1. /\ t \in Owners /\ w \in Windows /\ s \in {"plain", "child", "owned", "full"}
              /\ p \in Parents
          BY <2>0
        <5>2. v \in BOOLEAN
          BY <4>1
        <5> QED
          BY <2>0, <4>1, <5>1, <5>2, CreateWindowKeeps
      <4>2. ASSUME NEW w \in scene.windows, CreateComplete(w) \/ CreateFails(w) \/ DestroyWindow(w)
            PROVE  Kept
        <5>1. w \in Windows
          BY <2>0
        <5> QED
          BY <2>0, <4>2, <5>1, CreateCompleteKeeps, CreateFailsKeeps, DestroyWindowKeeps
      <4>3. ASSUME NEW d \in destroying, DestroyComplete(d) PROVE Kept
        BY <2>0, <4>3, DestroyCompleteKeeps
      <4> QED
        BY <3>1, <4>1, <4>2, <4>3 DEF WindowCalls
    <3>2. CASE ShowCalls
      <4>1. PICK w \in Windows : ShowWindow(w) \/ HideWindow(w)
        BY <2>0, <3>2 DEF ShowCalls
      <4> QED
        BY <2>0, <4>1, ShowWindowKeeps, HideWindowKeeps
    <3>3. CASE PaintCalls
      BY <2>0, <3>3, InvalidateRectKeeps DEF PaintCalls
    <3>4. CASE PostCalls
      <4>1. ASSUME NEW w \in Windows, PostMessage(w) \/ SetFocus(w) PROVE Kept
        BY <2>0, <4>1, PostMessageKeeps, SetFocusKeeps
      <4>2. ASSUME NEW t \in Owners, PostThreadMessage(t) PROVE Kept
        BY <2>0, <4>2, PostThreadKeeps
      <4>3. BroadcastMessage \/ PostQuitMessage => Kept
        BY <2>0, BroadcastKeeps, PostQuitKeeps
      <4> QED
        BY <2>0, <3>4, <4>1, <4>2, <4>3 DEF PostCalls
    <3>5. CASE SendCalls
      <4>1. ASSUME NEW t \in Owners, NEW w \in Windows, SendMessage(t, w) PROVE Kept
        BY <2>0, <4>1, SendMessageKeeps
      <4>2. ASSUME NEW w \in Windows, SendButtonDown(w) PROVE Kept
        BY <2>0, <4>2, SendButtonDownKeeps
      <4> QED
        BY <2>0, <3>5, <4>1, <4>2 DEF SendCalls
    <3>6. CASE TimerCalls
      BY <2>0, <3>6, TimerCallsKeep, TimersFireKeeps DEF TimerCalls
    <3>7. CASE HostInput
      <4>1. ASSUME NEW w \in Windows, HostKey(w) PROVE Kept
        BY <2>0, <4>1, HostKeyKeeps
      <4>2. ASSUME NEW what \in Pointer, NEW hit \in scene.windows \cup {NoWindow},
                   NEW refused \in BOOLEAN, hit # NoWindow => UnderPoint(hit),
                   HostMouse(what, hit, refused)
            PROVE  Kept
        <5>1. hit \in Windows \cup {NoWindow}
          BY <2>0
        <5> QED
          BY <2>0, <4>2, <5>1, HostMouseKeeps
      <4> QED
        BY <2>0, <3>7, <4>1, <4>2 DEF HostInput
    <3>8. CASE Retrieval
      BY <2>0, <3>8, GetMessageKeeps DEF Retrieval
    <3> QED
      BY <1>2, <3>1, <3>2, <3>3, <3>4, <3>5, <3>6, <3>7, <3>8 DEF Next
  <2> QED
    BY <2>0, <2>1 DEF Kept, GweInvariant
<1> QED
  BY <1>1, <1>2

(* The parts of the invariant the properties are read off.                  *)
LEMMA GweHolds ==
  ASSUME GweInvariant
  PROVE  /\ Basic(queue, windowOwners) /\ Known(queue, There(windows))
         /\ Orderly(queue, Children(windows)) /\ Single(queue)
         /\ queue \in Queues /\ queue.messages \in Seq(Messages)
         /\ Len(queue.messages) \in Nat /\ Queued(queue) \subseteq Messages
         /\ Queued(queue) = ToSet(queue.messages)
BY GoodParts DEF GweInvariant, Books, Good

(* TypeOK; as many ids are queued as messages, because ids are distinct.    *)
LEMMA GweTypeOK ==
  ASSUME GweInvariant
  PROVE  TypeOK
<1>1. queue.nextId \in 1 .. scene.messages + 1
  BY GweHolds, QueueParts, GweAssumption DEF GweInvariant, Basic, Numbered
<1>2. \A m \in Queued(queue) :
        /\ m.id \in 1 .. queue.nextId - 1 /\ m.hwnd \in Parents
        /\ m.what \in Whats /\ m.kind \in Kinds /\ m.sender \in Owners \cup {NoOwner}
  BY GweHolds DEF Basic, Numbered, Messages
<1>3. Cardinality({m.id : m \in Queued(queue)}) = Len(queue.messages)
  <2> DEFINE list == queue.messages
             ids == {m.id : m \in Queued(queue)}
             f == [i \in 1 .. Len(list) |-> list[i].id]
  <2>1. list \in Seq(Messages) /\ Len(list) \in Nat /\ Queued(queue) = ToSet(list)
        /\ Distinct(list)
    BY GweHolds DEF Basic, Numbered
  <2> HIDE DEF list
  <2>2. f \in [1 .. Len(list) -> ids] /\ \A x \in ids : \E i \in 1 .. Len(list) : f[i] = x
    BY <2>1, ToSetMember
  <2>3. f \in Bijection(1 .. Len(list), ids)
    BY <2>1, <2>2 DEF Distinct, Bijection, Injection, Surjection, IsInjective
  <2>4. ExistsBijection(1 .. Len(list), ids)
    BY <2>3, SMTT(20) DEF ExistsBijection
  <2>5. IsFiniteSet(1 .. Len(list)) /\ Cardinality(1 .. Len(list)) = Len(list)
    BY <2>1, FS_Interval
  <2> HIDE DEF ids
  <2>6. Cardinality(ids) = Len(list)
    BY <2>4, <2>5, FS_Bijection
  <2> QED
    BY <2>6 DEF ids, list
<1>4. /\ windows \in [Windows -> WindowType]
      /\ windowOwners \in [Windows -> Owners \cup {NoOwner}]
      /\ regions \subseteq Windows /\ timers \subseteq scene.timers
      /\ pointer \in PointerType
  BY DEF GweInvariant, Tables, Watches, WindowOwners, There, Remembers
<1> QED
  BY <1>1, <1>2, <1>3, <1>4 DEF TypeOK

(* LanesMirrorQueue, from the same id by id.                                *)
LEMMA LanesMirror ==
  ASSUME GweInvariant
  PROVE  LanesMirrorQueue
<1>1. /\ \A t \in Owners, k \in Kinds, i \in Nat :
           i \in queue.lanes[t][k] <=> /\ i \in DOMAIN queue.ownerOf /\ queue.ownerOf[i] = t
                                       /\ \E m \in Queued(queue) : m.id = i /\ m.kind = k
      /\ \A i \in DOMAIN queue.ownerOf : \E m \in Queued(queue) : m.id = i
  BY GweHolds DEF Basic, Mirror
<1>2. queue.lanes \in [Owners -> [Kinds -> SUBSET Nat]]
  BY GweHolds, QueueParts DEF Lanes
<1>3. \A m \in Queued(queue) : m.id \in Nat
  BY GweHolds DEF Messages
<1>4. ASSUME NEW t \in Owners, NEW k \in Kinds
      PROVE  queue.lanes[t][k] = {m.id : m \in {x \in Queued(queue) :
               x.kind = k /\ x.id \in DOMAIN queue.ownerOf /\ queue.ownerOf[x.id] = t}}
  <2>1. queue.lanes[t][k] \subseteq Nat
    BY <1>2
  <2> QED
    BY <1>1, <1>3, <2>1
<1> QED
  BY <1>1, <1>4 DEF LanesMirrorQueue

(* WakeTestAgrees: a message without a remembered owner is nobody's now     *)
(* either.                                                                  *)
LEMMA WakesAgree ==
  ASSUME GweInvariant
  PROVE  WakeTestAgrees
<1>1. /\ \A t \in Owners, k \in Kinds, i \in Nat :
           i \in queue.lanes[t][k] <=> /\ i \in DOMAIN queue.ownerOf /\ queue.ownerOf[i] = t
                                       /\ \E m \in Queued(queue) : m.id = i /\ m.kind = k
      /\ \A m \in Queued(queue) :
           m.id \notin DOMAIN queue.ownerOf => m.hwnd = NoWindow \/ windowOwners[m.hwnd] = NoOwner
  BY GweHolds DEF Basic, Mirror, Settled
<1>2. queue.lanes \in [Owners -> [Kinds -> SUBSET Nat]]
  BY GweHolds, QueueParts DEF Lanes
<1>3. \A m \in Queued(queue) : m.id \in Nat /\ m.kind \in Kinds
  BY GweHolds DEF Messages
<1>4. ASSUME NEW t \in Owners, HasMessagesForOwner(queue, t)
      PROVE  \E m \in Queued(queue) : OwnerForMessage(queue, windowOwners, m) = t
  <2>1. PICK k \in Kinds, i \in Nat : i \in queue.lanes[t][k]
    BY <1>2, <1>4 DEF HasMessagesForOwner
  <2>2. PICK m \in Queued(queue) : m.id = i
    BY <1>1, <2>1
  <2> QED
    BY <1>1, <2>1, <2>2 DEF OwnerForMessage
<1>5. ASSUME NEW t \in Owners, NEW m \in Queued(queue),
             OwnerForMessage(queue, windowOwners, m) = t
      PROVE  HasMessagesForOwner(queue, t)
  <2>1. t # NoOwner
    BY GweAssumption
  <2>2. m.id \in DOMAIN queue.ownerOf /\ queue.ownerOf[m.id] = t
    BY <1>1, <1>5, <2>1 DEF OwnerForMessage
  <2>3. m.id \in queue.lanes[t][m.kind]
    BY <1>1, <1>3, <2>2
  <2> QED
    BY <1>3, <2>3 DEF HasMessagesForOwner
<1> QED
  BY <1>4, <1>5 DEF WakeTestAgrees

(* The properties about order.                                              *)
LEMMA OrdersKept ==
  ASSUME GweInvariant
  PROVE  PostedInOrder /\ InputAfterLifecycle
<1>1. ASSUME NEW i \in 1 .. Len(queue.messages), NEW j \in 1 .. Len(queue.messages), i < j,
             queue.messages[i].hwnd = queue.messages[j].hwnd
      PROVE  InOrder(queue.messages[i], queue.messages[j], Children(windows))
  <2>1. Ahead(queue.messages, queue.messages[i], queue.messages[j])
    BY <1>1 DEF Ahead
  <2> QED
    BY <1>1, <2>1, GweHolds DEF Orderly
<1>2. PostedInOrder
  BY <1>1 DEF InOrder, PostedInOrder
<1>3. InputAfterLifecycle
  BY <1>1 DEF InOrder, InputAfterLifecycle, Children
<1> QED
  BY <1>2, <1>3

(* The properties about what waits once.                                    *)
LEMMA SinglesKept ==
  ASSUME GweInvariant
  PROVE  Coalesced /\ TouchesDoNotOverlap
BY GweHolds DEF Single, Coalesced, TouchesDoNotOverlap

(* The inductive invariant.                                                 *)
THEOREM GweInvariantHolds == Spec => []GweInvariant
<1>1. Init => GweInvariant
  BY GweInit
<1>2. GweInvariant /\ [Next]_vars => GweInvariant'
  BY GweStep
<1> QED
  BY <1>1, <1>2, PTL DEF Spec

(* For every set of windows, threads and scenes the variables of CeGwe have *)
(* their types, and no message is queued twice.                             *)
THEOREM QueueTyped == Spec => []TypeOK
<1>1. GweInvariant => TypeOK
  BY GweTypeOK
<1> QED
  BY <1>1, GweInvariantHolds, PTL

(* The lanes always mirror the flat queue: through every post, insertion,   *)
(* erasure and move to the front of ce_gwe.h, and whatever windows come and *)
(* go.                                                                      *)
THEOREM LanesTrue == Spec => []LanesMirrorQueue
<1>1. GweInvariant => LanesMirrorQueue
  BY LanesMirror
<1> QED
  BY <1>1, GweInvariantHolds, PTL

(* The test that parks and wakes a thread in GetMessageW agrees with what   *)
(* it would retrieve.                                                       *)
THEOREM WakesTrue == Spec => []WakeTestAgrees
<1>1. GweInvariant => WakeTestAgrees
  BY WakesAgree
<1> QED
  BY <1>1, GweInvariantHolds, PTL

(* The posted messages of a window are never reordered, by no popup and no  *)
(* input.                                                                   *)
THEOREM PostsInOrder == Spec => []PostedInOrder
<1>1. GweInvariant => PostedInOrder
  BY OrdersKept
<1> QED
  BY <1>1, GweInvariantHolds, PTL

(* Input never overtakes the messages that size and show its window, the    *)
(* release mirrored to a child excepted.                                    *)
THEOREM LifecycleFirst == Spec => []InputAfterLifecycle
<1>1. GweInvariant => InputAfterLifecycle
  BY OrdersKept
<1> QED
  BY <1>1, GweInvariantHolds, PTL

(* A window never has two paints, or two erases, waiting.                   *)
THEOREM PaintsCoalesce == Spec => []Coalesced
<1>1. GweInvariant => Coalesced
  BY SinglesKept
<1> QED
  BY <1>1, GweInvariantHolds, PTL

(* Two touches never overlap in the queue.                                  *)
THEOREM TouchesApart == Spec => []TouchesDoNotOverlap
<1>1. GweInvariant => TouchesDoNotOverlap
  BY SinglesKept
<1> QED
  BY <1>1, GweInvariantHolds, PTL
==============================================================================
