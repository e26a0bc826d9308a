--------------------------- MODULE ComponentsProofs ---------------------------
(***************************************************************************)
(* Proofs about MsgRouter and Components, for every number of topics,      *)
(* subscribers, publishers, components and tasks.                          *)
(*                                                                         *)
(* The invariant has three layers.  The tables of the router stand on      *)
(* their own.  The mailboxes rest on them: a reset finds every publisher   *)
(* that had gathered the mailbox, and a mailbox being written has one      *)
(* writer, unless a reset took it over.  The registry rests on who holds a subscription.                *)
(***************************************************************************)
EXTENDS Components, FiniteSetTheorems, OrderLemmas, TLAPS

PubPcs  == {"idle", "claim", "write", "wait"}
PubType == [pc : PubPcs, it : Publications \cup {None}, targets : SUBSET Boxes,
            stale : SUBSET Boxes, acked : BOOLEAN, gone : BOOLEAN, crowded : BOOLEAN]

\* A publisher knows what it publishes; where none of its mailboxes was reset
\* since it gathered them they still belong to subscribers of the topic; the
\* acknowledgement it waits for is one of the message it has written.
PublishersInv ==
  \A p \in Publishers : pub[p].pc # "idle" =>
    /\ pub[p].it \in Publications
    /\ \A b \in pub[p].targets \ pub[p].stale : Reaches(b, pub[p].it.topic)
    /\ pub[p].pc # "wait" => ~ pub[p].acked

\* A mailbox being written that was not taken over has one writer.
WritersInv ==
  \A p \in Publishers : pub[p].pc = "write" /\ Box(p) \notin taken =>
    /\ ready[Box(p)] = "writing"
    /\ msg[Box(p)].stale <=> Box(p) \in pub[p].stale
    /\ \A q \in Publishers : pub[q].pc = "write" /\ Box(q) = Box(p) => q = p

\* What a full mailbox holds has a topic.
FullInv == \A b \in Boxes : ready[b] = "full" => msg[b].topic \in Names

\* Once the message of a publisher that is alone is acknowledged, its mailbox is
\* not full again, and an acknowledgement under way is for that message.
CountingInv ==
  \A p \in Publishers :
    pub[p].pc = "wait" /\ Box(p) \notin taken /\ ~ pub[p].crowded /\ ~ pub[p].gone =>
    /\ pub[p].acked => ready[Box(p)] # "full"
    /\ acking = Box(p) => pub[p].acked

MailInv ==
  /\ PublishersInv /\ WritersInv /\ FullInv /\ CountingInv
  /\ RoutedToSubscriber /\ LandedUntilAcked

-----------------------------------------------------------------------------
\* The control points of a command at which it has an entry in hand, and those
\* at which it alone carries it.
AtEntry == {"save", "updating", "unsubscribe", "unregister", "drop", "initializing", "create",
            "rollback", "resubscribe"}
Carries == {"unsubscribe", "unregister", "initializing", "create", "rollback"}
Fresh   == {"initializing", "create", "rollback"}

\* Those of no command on the registry: none at all, or one on the feed.
Away    == {"idle", "listen", "close"}

\* What the locals of the tasks and of the operator hold, that an entry in use
\* has a name, and whose doing the state UPDATING is.
LocalsInv ==
  /\ \A t \in Tasks : task[t].pc # "free" => task[t].idx \in Indexes /\ task[t].name \in Builtins
  /\ IF op.pc \in AtEntry THEN op.idx \in Indexes ELSE op.idx = 0
  /\ op.pc \notin Away => op.new \in Builtins
  /\ \A i \in Indexes :
       /\ registry[i].state # "unloaded" => registry[i].name # None
       /\ registry[i].state = "updating" => op.idx = i /\ op.pc \in {"unsubscribe", "unregister"}

\* An index holds a subscription that a task or the owner of the entry made.
Holds(i) == i \notin orphaned /\ \E b \in Boxes : owner[b] = i

\* An entry whose slot no task outlived: EntriesCarried, the state in which its
\* task exits and unloads, and what the commands rely on between their steps.
EntryInv(i) ==
  /\ is_active(i) => Live(i) # {} \/ (op.idx = i /\ op.pc \in Carries)
  /\ \A t, u \in Live(i) : t = u
  /\ Live(i) # {} => is_active(i)
  /\ Holds(i) => is_active(i)
  /\ \A t \in Live(i) :
       /\ task[t].pc = "exit" => registry[i].state \in {"terminating", "updating"}
       /\ task[t].pc = "unload" => ~ Holds(i)
  /\ op.idx = i /\ op.pc \in Fresh => Live(i) = {} /\ is_active(i) /\ ~ Holds(i)
  /\ op.idx = i /\ op.pc = "unregister" /\ Holds(i) =>
       \E t \in Live(i) : \/ task[t].pc \in {"poll", "ack", "store", "unsubscribe"}
                          \/ task[t].pc = "exit" /\ registry[i].state = "terminating"

RegistryInv == \A i \in Indexes \ outlived : EntryInv(i)

-----------------------------------------------------------------------------
(***************************************************************************)
(* How the mailboxes are laid out, and the scans for the first of them.    *)
(***************************************************************************)
\* Mailboxes have positive numbers; those of one topic, of another topic and of
\* the wildcard subscriptions are apart.
LEMMA Layout ==
  /\ Slots \subseteq Nat /\ IsFiniteSet(Slots) /\ Cardinality(Slots) = MaxTopics
  /\ Boxes \subseteq Nat /\ 0 \notin Boxes /\ \E n \in Nat : Boxes \subseteq 1 .. n
  /\ WildBoxes \subseteq Boxes
  /\ \A i \in Slots : /\ BoxesOf(i) \subseteq Boxes /\ BoxesOf(i) \cap WildBoxes = {}
                      /\ IsFiniteSet(BoxesOf(i)) /\ Cardinality(BoxesOf(i)) = MaxSubs
  /\ \A i, j \in Slots : i # j => BoxesOf(i) \cap BoxesOf(j) = {}
  <1> USE RouterAssumption
  <1>1. \A a, b, m \in Nat : a <= b => a * m <= b * m
    OBVIOUS
  <1>2. \A a, m \in Nat : (a + 1) * m = a * m + m /\ a * m \in Nat
    OBVIOUS
  <1>3. ASSUME NEW i \in Slots
        PROVE  /\ i \in Nat /\ i - 1 \in Nat
               /\ (i - 1) * MaxSubs \in Nat /\ i * MaxSubs = (i - 1) * MaxSubs + MaxSubs
               /\ i * MaxSubs <= MaxTopics * MaxSubs
    <2>1. i \in Nat /\ i - 1 \in Nat /\ (i - 1) + 1 = i /\ i <= MaxTopics
      BY DEF Slots
    <2>2. i * MaxSubs <= MaxTopics * MaxSubs
      BY <1>1, <2>1
    <2>3. /\ (i - 1) * MaxSubs \in Nat
          /\ ((i - 1) + 1) * MaxSubs = (i - 1) * MaxSubs + MaxSubs
      BY <1>2, <2>1
    <2>4. QED
      BY <2>1, <2>2, <2>3
  <1>4. PICK total \in Nat : total = MaxTopics * MaxSubs
    BY <1>2
  <1>5. Slots \subseteq Nat /\ IsFiniteSet(Slots) /\ Cardinality(Slots) = MaxTopics
    BY FS_Interval DEF Slots
  <1>6. /\ \A b \in Boxes : b \in 1 .. total + MaxWild
        /\ \A b \in 1 .. total : b \in Boxes
        /\ WildBoxes \subseteq Boxes /\ \A b \in WildBoxes : b > total
    BY <1>4 DEF Boxes, SubBoxes, WildBoxes
  <1>7. Boxes \subseteq Nat /\ 0 \notin Boxes /\ \E n \in Nat : Boxes \subseteq 1 .. n
    BY <1>6
  <1>8. ASSUME NEW i \in Slots
        PROVE  /\ BoxesOf(i) \subseteq Boxes /\ BoxesOf(i) \cap WildBoxes = {}
               /\ IsFiniteSet(BoxesOf(i)) /\ Cardinality(BoxesOf(i)) = MaxSubs
    <2>1. PICK lo \in Nat : lo = (i - 1) * MaxSubs
      BY <1>3
    <2>2. BoxesOf(i) = lo + 1 .. lo + MaxSubs /\ lo + MaxSubs <= total
      BY <1>3, <1>4, <2>1 DEF BoxesOf
    <2>3. \A b \in BoxesOf(i) : b \in 1 .. total
      BY <2>2
    <2>4. IsFiniteSet(BoxesOf(i)) /\ Cardinality(BoxesOf(i)) = MaxSubs
      BY <2>2, FS_Interval
    <2>5. BoxesOf(i) \subseteq Boxes
      BY <1>6, <2>3
    <2>6. \A b \in BoxesOf(i) : b \notin WildBoxes
      BY <1>6, <2>3
    <2>7. QED
      BY <2>4, <2>5, <2>6
  <1>9. ASSUME NEW i \in Slots, NEW j \in Slots, i < j
        PROVE  BoxesOf(i) \cap BoxesOf(j) = {}
    <2>1. i * MaxSubs <= (j - 1) * MaxSubs
      <3>1. i \in Nat /\ j - 1 \in Nat /\ i <= j - 1
        BY <1>3, <1>9
      <3>2. QED
        BY <1>1, <3>1
    <2>2. /\ \A b \in BoxesOf(i) : b \in Int /\ b <= i * MaxSubs
          /\ \A b \in BoxesOf(j) : b \in Int /\ b >= (j - 1) * MaxSubs + 1
      BY <1>3 DEF BoxesOf
    <2>3. i * MaxSubs \in Int /\ (j - 1) * MaxSubs \in Int
      BY <1>3
    <2>4. QED
      BY <2>1, <2>2, <2>3
  <1>10. \A i, j \in Slots : i # j => i < j \/ j < i
    BY <1>3
  <1>11. \A i, j \in Slots : i # j => BoxesOf(i) \cap BoxesOf(j) = {}
    BY <1>9, <1>10
  <1>12. QED
    BY <1>5, <1>6, <1>7, <1>8, <1>11

\* A scan that finds something returns it.
LEMMA FirstIsIn ==
  ASSUME NEW S \in SUBSET Nat, S # {}
  PROVE  First(S) \in S
  <1>1. \E x \in S : \A y \in S : x <= y
    BY LeastElement
  <1>2. QED
    BY <1>1 DEF First

\* The mailbox a publisher is at is one of those it gathered.
LEMMA BoxIsTarget ==
  ASSUME NEW S \in SUBSET Boxes, S # {}
  PROVE  First(S) \in S /\ First(S) \in Boxes
  BY Layout, FirstIsIn

\* component_idx and the free marks differ from what they mark.
LEMMA Marks ==
  /\ NoOwner \notin Components /\ \A i \in Indexes : i \in Components
  /\ Feed \in Components /\ 0 \notin Indexes
  /\ None \notin Names /\ None \notin Patterns /\ None \notin Builtins
  BY RouterAssumption, ComponentsAssumption DEF NoOwner, Indexes, Feed

-----------------------------------------------------------------------------
(***************************************************************************)
(* The tables.                                                             *)
(***************************************************************************)
TablesType ==
  /\ name \in [Slots -> Names \cup {None}] /\ sub_count \in [Slots -> 0 .. MaxSubs]
  /\ topic_count \in 0 .. MaxTopics
  /\ owner \in [Boxes -> Components \cup {NoOwner}]
  /\ pattern \in [WildBoxes -> Patterns \cup {None}]

TablesInv == TablesType /\ TablesAgree

Used == {i \in Slots : name[i] # None}
Taken(i) == {b \in BoxesOf(i) : owner[b] # NoOwner}

CountsBounded ==
  /\ IsFiniteSet(Used) /\ Cardinality(Used) \in 0 .. MaxTopics
  /\ \A i \in Slots : IsFiniteSet(Taken(i)) /\ Cardinality(Taken(i)) \in 0 .. MaxSubs

\* The counts are sizes of subsets of finite ranges, so they keep their bounds.
LEMMA CountBounds == CountsBounded
  <1>1. Used \in SUBSET Slots
    BY DEF Used
  <1>2. IsFiniteSet(Used) /\ Cardinality(Used) <= MaxTopics /\ Cardinality(Used) \in Nat
    BY <1>1, Layout, FS_Subset, FS_CardinalityType
  <1>3. ASSUME NEW i \in Slots
        PROVE  IsFiniteSet(Taken(i)) /\ Cardinality(Taken(i)) \in 0 .. MaxSubs
    <2>1. Taken(i) \in SUBSET BoxesOf(i) /\ IsFiniteSet(BoxesOf(i))
          /\ Cardinality(BoxesOf(i)) = MaxSubs
      BY Layout DEF Taken
    <2>2. IsFiniteSet(Taken(i)) /\ Cardinality(Taken(i)) <= MaxSubs
      BY <2>1, FS_Subset
    <2>3. Cardinality(Taken(i)) \in Nat
      BY <2>2, FS_CardinalityType
    <2>4. QED
      BY <2>2, <2>3, RouterAssumption
  <1>4. QED
    BY <1>2, <1>3, RouterAssumption DEF CountsBounded

\* Subscribing again, or with no room left, changes nothing; else one mailbox of
\* the topic, or of the wildcard table, that was free is given to c and reset.
LEMMA SubscribeWildTables ==
  ASSUME TablesInv, NEW n \in Patterns, NEW c \in Components, SubscribeWild(n, c),
         ~ UNCHANGED routervars
  PROVE  \E b \in WildBoxes :
           /\ pattern[b] = None /\ ~ HasWild(n, c)
           /\ pattern' = [pattern EXCEPT ![b] = n] /\ owner' = [owner EXCEPT ![b] = c]
           /\ Clear({b})
           /\ UNCHANGED <<name, sub_count, topic_count, last_received, acking, published>>
  <1>1. ~ (HasWild(n, c) \/ FreeWild = {})
    BY DEF SubscribeWild
  <1>2. FreeWild \in SUBSET Nat /\ FreeWild # {}
    BY <1>1, Layout DEF FreeWild
  <1>3. First(FreeWild) \in FreeWild
    BY <1>2, FirstIsIn
  <1>4. First(FreeWild) \in WildBoxes /\ pattern[First(FreeWild)] = None
    BY <1>3 DEF FreeWild
  <1>5. QED
    BY <1>1, <1>4 DEF SubscribeWild

\* The same for a topic, whose slot is the one with its name or the first free.
LEMMA SubscribeTopicTables ==
  ASSUME TablesInv, NEW n \in Names, NEW c \in Components, SubscribeTopic(n, c),
         ~ UNCHANGED routervars
  PROVE  \E i \in Slots : \E b \in BoxesOf(i) :
           /\ owner[b] = NoOwner /\ ~ Subscribed(i, c)
           /\ name[i] = n \/ (name[i] = None /\ \A j \in Slots : name[j] # n)
           /\ name' = [name EXCEPT ![i] = n]
           /\ topic_count' = topic_count + (IF name[i] = None THEN 1 ELSE 0)
           /\ sub_count' = [sub_count EXCEPT ![i] = @ + 1]
           /\ owner' = [owner EXCEPT ![b] = c]
           /\ Clear({b})
           /\ UNCHANGED <<pattern, last_received, acking, published>>
  <1> DEFINE i == TopicSlot(n)
             free == {b \in BoxesOf(i) : owner[b] = NoOwner}
  <1>1. ~ (i = 0 \/ Subscribed(i, c) \/ free = {})
    BY DEF SubscribeTopic
  <1>2. /\ i \in Slots
        /\ name[i] = n \/ (name[i] = None /\ \A j \in Slots : name[j] # n)
    <2> DEFINE found == {j \in Slots : name[j] = n}
               vacant == {j \in Slots : name[j] = None}
    <2>1. i = CASE found # {} -> First(found)
                [] found = {} /\ vacant # {} -> First(vacant)
                [] OTHER -> 0
      BY DEF TopicSlot
    <2>2. found \in SUBSET Nat /\ vacant \in SUBSET Nat
      BY Layout
    <2>3. CASE found # {}
      <3>1. i = First(found)
        BY <2>1, <2>3
      <3>2. i \in found
        BY <2>2, <2>3, <3>1, FirstIsIn
      <3>3. QED
        BY <3>2
    <2>4. CASE found = {} /\ vacant # {}
      <3>1. i = First(vacant)
        BY <2>1, <2>4
      <3>2. i \in vacant
        BY <2>2, <2>4, <3>1, FirstIsIn
      <3>3. QED
        BY <2>4, <3>2
    <2>5. CASE found = {} /\ vacant = {}
      <3>1. i = 0
        BY <2>1, <2>5
      <3>2. QED
        BY <1>1, <3>1
    <2>6. QED
      BY <2>3, <2>4, <2>5
  <1> HIDE DEF i
  <1>3. First(free) \in free
    <2>1. free \in SUBSET Nat
      BY <1>2, Layout
    <2>2. QED
      BY <1>1, <2>1, FirstIsIn
  <1>4. First(free) \in BoxesOf(i) /\ owner[First(free)] = NoOwner
    BY <1>3
  <1>5. /\ name' = [name EXCEPT ![i] = n]
        /\ topic_count' = topic_count + (IF name[i] = None THEN 1 ELSE 0)
        /\ sub_count' = [sub_count EXCEPT ![i] = @ + 1]
        /\ owner' = [owner EXCEPT ![First(free)] = c]
        /\ Clear({First(free)})
        /\ UNCHANGED <<pattern, last_received, acking, published>>
    BY <1>1, Zenon DEF SubscribeTopic, i
  <1>6. QED
    BY <1>1, <1>2, <1>4, <1>5

\* What the invariant of the tables says of one slot.
SlotAgrees(i) ==
  /\ sub_count[i] = Cardinality(Taken(i))
  /\ name[i] = None <=> sub_count[i] = 0
  /\ \A j \in Slots \ {i} : name[i] # None => name[i] # name[j]
  /\ \A b, d \in BoxesOf(i) : owner[b] = owner[d] /\ owner[b] # NoOwner => b = d

WildAgrees ==
  \A b, d \in WildBoxes :
    pattern[b] = pattern[d] /\ owner[b] = owner[d] /\ owner[b] # NoOwner => b = d

\* The invariant of the tables, slot by slot.
LEMMA TablesBySlot ==
  TablesAgree <=> /\ topic_count = Cardinality(Used)
                  /\ \A i \in Slots : SlotAgrees(i)
                  /\ WildAgrees
  BY DEF TablesAgree, Used, Taken, SlotAgrees, WildAgrees

\* A slot without a name has no subscriber.
LEMMA NamelessIsEmpty ==
  ASSUME TablesInv, NEW i \in Slots, name[i] = None
  PROVE  \A b \in BoxesOf(i) : owner[b] = NoOwner
  <1>1. Cardinality(Taken(i)) = 0
    BY TablesBySlot DEF TablesInv, SlotAgrees
  <1>2. Taken(i) = {}
    BY <1>1, CountBounds, FS_EmptySet DEF CountsBounded
  <1>3. QED
    BY <1>2 DEF Taken

\* A new subscription to a topic keeps the tables in agreement.
LEMMA TopicKeepsTables ==
  ASSUME TablesInv, NEW n \in Names, NEW c \in Components,
         NEW i \in Slots, NEW b \in BoxesOf(i),
         owner[b] = NoOwner, ~ Subscribed(i, c),
         name[i] = n \/ (name[i] = None /\ \A j \in Slots : name[j] # n),
         name' = [name EXCEPT ![i] = n],
         topic_count' = topic_count + (IF name[i] = None THEN 1 ELSE 0),
         sub_count' = [sub_count EXCEPT ![i] = @ + 1],
         owner' = [owner EXCEPT ![b] = c], pattern' = pattern
  PROVE  TablesInv'
  <1>1. /\ b \in Boxes /\ b \notin WildBoxes /\ n # None /\ c # NoOwner
        /\ \A j \in Slots \ {i} : b \notin BoxesOf(j)
        /\ \A j \in Slots : BoxesOf(j) \subseteq Boxes
    BY Layout, Marks
  <1>2. /\ name' \in [Slots -> Names \cup {None}]
        /\ name'[i] = n /\ \A j \in Slots \ {i} : name'[j] = name[j]
    BY DEF TablesInv, TablesType
  <1>3. /\ owner' \in [Boxes -> Components \cup {NoOwner}]
        /\ owner'[b] = c /\ \A d \in Boxes \ {b} : owner'[d] = owner[d]
    BY <1>1 DEF TablesInv, TablesType
  <1>4. /\ sub_count[i] \in Nat /\ sub_count'[i] = sub_count[i] + 1
        /\ sub_count' = [j \in Slots |-> sub_count'[j]]
        /\ \A j \in Slots \ {i} : sub_count'[j] = sub_count[j]
    <2>1. sub_count \in [Slots -> 0 .. MaxSubs] /\ sub_count[i] \in 0 .. MaxSubs
      BY DEF TablesInv, TablesType
    <2>2. sub_count[i] \in Nat
      BY <2>1
    <2>3. QED
      BY <2>1, <2>2
  <1>5. ASSUME NEW j \in Slots PROVE SlotAgrees(j)'
    <2>0. SlotAgrees(j) /\ SlotAgrees(i)
      BY TablesBySlot DEF TablesInv
    <2>1. CASE j = i
      <3>1. Taken(i)' = Taken(i) \cup {b} /\ b \notin Taken(i)
        BY <1>1, <1>3 DEF Taken
      <3>2. Cardinality(Taken(i)') = Cardinality(Taken(i)) + 1
        <4>1. IsFiniteSet(Taken(i))
          BY CountBounds DEF CountsBounded
        <4>2. Cardinality(Taken(i) \cup {b}) = Cardinality(Taken(i)) + 1
          BY <3>1, <4>1, FS_AddElement
        <4>3. QED
          BY <3>1, <4>2
      <3>3. sub_count'[i] = Cardinality(Taken(i)') /\ sub_count'[i] # 0
        BY <1>4, <2>0, <3>2 DEF SlotAgrees
      <3>4. \A k \in Slots \ {i} : name'[k] # n
        BY <1>1, <1>2, <2>0 DEF SlotAgrees
      <3>5. \A d \in BoxesOf(i) : owner[d] # c
        BY <1>1, NamelessIsEmpty DEF Subscribed
      <3>6. \A d, e \in BoxesOf(i) : owner'[d] = owner'[e] /\ owner'[d] # NoOwner => d = e
        BY <1>1, <1>3, <2>0, <3>5 DEF SlotAgrees
      <3>7. QED
        BY <1>1, <1>2, <2>1, <3>3, <3>4, <3>6 DEF SlotAgrees
    <2>2. CASE j # i
      <3>1. \A d \in BoxesOf(j) : owner'[d] = owner[d]
        BY <1>1, <1>3, <2>2
      <3>2. Taken(j)' = Taken(j)
        BY <3>1 DEF Taken
      <3>3. name'[j] = name[j] /\ sub_count'[j] = sub_count[j]
        BY <1>2, <1>4, <2>2
      <3>4. \A k \in Slots \ {j} : name[j] # None => name'[k] # name[j]
        <4>1. name[j] # None => name[j] # n
          BY <1>1, <2>0, <2>2 DEF SlotAgrees
        <4>2. QED
          BY <1>2, <2>0, <2>2, <4>1 DEF SlotAgrees
      <3>5. QED
        BY <2>0, <3>1, <3>2, <3>3, <3>4 DEF SlotAgrees
    <2>3. QED
      BY <2>1, <2>2
  <1>6. topic_count' = Cardinality(Used')
    <2>1. topic_count = Cardinality(Used) /\ IsFiniteSet(Used)
      BY TablesBySlot, CountBounds DEF TablesInv, CountsBounded
    <2>2. Used' = Used \cup {i} /\ (i \in Used <=> name[i] # None)
      BY <1>1, <1>2 DEF Used
    <2>3. Cardinality(Used \cup {i}) = IF i \in Used THEN Cardinality(Used) ELSE Cardinality(Used) + 1
      BY <2>1, FS_AddElement
    <2>4. Cardinality(Used) \in Nat
      BY <2>1, FS_CardinalityType
    <2>5. QED
      BY <2>1, <2>2, <2>3, <2>4
  <1>7. WildAgrees'
    <2>1. \A d \in WildBoxes : owner'[d] = owner[d]
      BY <1>1, <1>3, Layout
    <2>2. QED
      BY <2>1, TablesBySlot DEF TablesInv, WildAgrees
  <1>8. TablesAgree'
    BY <1>5, <1>6, <1>7 DEF TablesAgree, Used, Taken, SlotAgrees, WildAgrees
  <1>9. TablesType'
    <2>1. topic_count' \in 0 .. MaxTopics /\ \A j \in Slots : sub_count'[j] \in 0 .. MaxSubs
      <3>1. CountsBounded'
        BY CountBounds, PTL
      <3>2. QED
        BY <1>5, <1>6, <3>1 DEF SlotAgrees, CountsBounded
    <2>2. QED
      BY <1>2, <1>3, <1>4, <2>1 DEF TablesInv, TablesType
  <1>10. QED
    BY <1>8, <1>9 DEF TablesInv

\* So does a new wildcard subscription.
LEMMA WildKeepsTables ==
  ASSUME TablesInv, NEW n \in Patterns, NEW c \in Components, NEW b \in WildBoxes,
         pattern[b] = None, ~ HasWild(n, c),
         pattern' = [pattern EXCEPT ![b] = n], owner' = [owner EXCEPT ![b] = c],
         UNCHANGED <<name, sub_count, topic_count>>
  PROVE  TablesInv'
  <1>1. /\ b \in Boxes /\ n # None /\ c # NoOwner
        /\ \A j \in Slots : b \notin BoxesOf(j) /\ BoxesOf(j) \subseteq Boxes
    BY Layout, Marks
  <1>2. /\ pattern' \in [WildBoxes -> Patterns \cup {None}]
        /\ pattern'[b] = n /\ \A d \in WildBoxes \ {b} : pattern'[d] = pattern[d]
    BY DEF TablesInv, TablesType
  <1>3. /\ owner' \in [Boxes -> Components \cup {NoOwner}]
        /\ owner'[b] = c /\ \A d \in Boxes \ {b} : owner'[d] = owner[d]
    BY <1>1 DEF TablesInv, TablesType
  <1>4. ASSUME NEW j \in Slots PROVE SlotAgrees(j)'
    <2>1. \A d \in BoxesOf(j) : owner'[d] = owner[d]
      BY <1>1, <1>3
    <2>2. Taken(j)' = Taken(j)
      BY <2>1 DEF Taken
    <2>3. SlotAgrees(j)
      BY TablesBySlot DEF TablesInv
    <2>4. QED
      BY <2>1, <2>2, <2>3 DEF SlotAgrees
  <1>5. WildAgrees'
    <2>1. WildAgrees
      BY TablesBySlot DEF TablesInv
    <2>2. \A d \in WildBoxes \ {b} : owner'[d] = owner[d] /\ ~ (pattern[d] = n /\ owner[d] = c)
      BY <1>3, Layout DEF HasWild
    <2>3. QED
      BY <1>2, <1>3, <2>1, <2>2 DEF WildAgrees
  <1>6. topic_count' = Cardinality(Used')
    BY TablesBySlot DEF TablesInv, Used
  <1>7. TablesAgree'
    BY <1>4, <1>5, <1>6 DEF TablesAgree, Used, Taken, SlotAgrees, WildAgrees
  <1>8. QED
    BY <1>2, <1>3, <1>7 DEF TablesInv, TablesType

\* Removing every subscription of c keeps the tables in agreement.
LEMMA UnsubscribeKeepsTables ==
  ASSUME TablesInv, NEW c \in Components, msg_router_unsubscribe_all(c)
  PROVE  TablesInv'
  <1> DEFINE R == Reclaimed(c)
             M == Mine(c)
             B == M \cup UNION {BoxesOf(i) : i \in R}
  <1>1. /\ c # NoOwner /\ \A j \in Slots : BoxesOf(j) \subseteq Boxes
        /\ M \subseteq Boxes /\ R \subseteq Slots
    BY Layout, Marks DEF Mine, Reclaimed
  <1>2. /\ owner' = [b \in Boxes |-> IF b \in B THEN NoOwner ELSE owner[b]]
        /\ pattern' = [b \in WildBoxes |-> IF b \in B THEN None ELSE pattern[b]]
        /\ sub_count' = [i \in Slots |-> IF i \in R THEN 0 ELSE Left(i, c)]
        /\ name' = [i \in Slots |-> IF i \in R THEN None ELSE name[i]]
        /\ topic_count' = CountAfter(c)
    BY Zenon DEF msg_router_unsubscribe_all
  <1>3. \A i \in Slots : \A b \in BoxesOf(i) : b \in B <=> b \in M \/ i \in R
    BY <1>1, Layout
  <1>4. \A b \in WildBoxes : b \in Boxes /\ (b \in B <=> b \in M)
    BY <1>1, Layout
  <1> HIDE DEF B
  <1>5. ASSUME NEW i \in Slots
        PROVE  /\ Left(i, c) = Cardinality(Taken(i) \ M)
               /\ Left(i, c) \in Nat /\ IsFiniteSet(Taken(i) \ M)
    <2>1. BoxesOf(i) \cap Mine(c) = Taken(i) \cap M
      BY <1>1 DEF Taken, Mine
    <2>2. IsFiniteSet(Taken(i)) /\ sub_count[i] = Cardinality(Taken(i))
      BY CountBounds, TablesBySlot DEF CountsBounded, TablesInv, SlotAgrees
    <2>3. /\ IsFiniteSet(Taken(i) \ M)
          /\ Cardinality(Taken(i) \ M) = Cardinality(Taken(i)) - Cardinality(Taken(i) \cap M)
      BY <2>2, FS_Difference
    <2>4. Cardinality(Taken(i) \ M) \in Nat
      BY <2>3, FS_CardinalityType
    <2> HIDE DEF M
    <2>5. QED
      BY <2>1, <2>2, <2>3, <2>4 DEF Left
  <1>6. ASSUME NEW i \in Slots
        PROVE  /\ i \in R => Taken(i) \ M = {}
               /\ i \notin R => (name[i] = None <=> Left(i, c) = 0)
    <2>1. i \in R <=> name[i] # None /\ Left(i, c) = 0
      <3>1. PICK l \in Nat : l = Left(i, c)
        BY <1>5
      <3>2. l <= 0 <=> l = 0
        OBVIOUS
      <3>3. QED
        BY <3>1, <3>2 DEF Reclaimed
    <2>2. Left(i, c) = 0 => Taken(i) \ M = {}
      BY <1>5, FS_EmptySet
    <2>3. name[i] = None => Taken(i) = {}
      BY NamelessIsEmpty DEF Taken
    <2>4. name[i] = None => Left(i, c) = 0
      BY <1>5, <2>3, FS_EmptySet
    <2>5. QED
      BY <2>1, <2>2, <2>4
  <1>7. ASSUME NEW i \in Slots PROVE SlotAgrees(i)'
    <2>1. SlotAgrees(i)
      BY TablesBySlot DEF TablesInv
    <2>2. \A b \in BoxesOf(i) : owner'[b] = IF b \in M \/ i \in R THEN NoOwner ELSE owner[b]
      BY <1>1, <1>2, <1>3
    <2>3. Taken(i)' = IF i \in R THEN {} ELSE Taken(i) \ M
      BY <1>1, <2>2 DEF Taken
    <2>4. sub_count'[i] = Cardinality(Taken(i)')
      BY <1>2, <1>5, <2>3, FS_EmptySet
    <2>5. name'[i] = None <=> sub_count'[i] = 0
      BY <1>2, <1>6
    <2>6. \A j \in Slots \ {i} : name'[i] # None => name'[i] # name'[j]
      BY <1>2, <2>1 DEF SlotAgrees
    <2>7. \A b, d \in BoxesOf(i) : owner'[b] = owner'[d] /\ owner'[b] # NoOwner => b = d
      BY <2>1, <2>2 DEF SlotAgrees
    <2>8. QED
      BY <2>4, <2>5, <2>6, <2>7 DEF SlotAgrees
  <1>8. WildAgrees'
    <2>1. WildAgrees
      BY TablesBySlot DEF TablesInv
    <2>2. \A b \in WildBoxes : /\ owner'[b] = IF b \in M THEN NoOwner ELSE owner[b]
                               /\ pattern'[b] = IF b \in M THEN None ELSE pattern[b]
      BY <1>2, <1>4
    <2>3. QED
      BY <2>1, <2>2 DEF WildAgrees
  <1>9. topic_count' = Cardinality(Used')
    <2>1. topic_count = Cardinality(Used) /\ IsFiniteSet(Used)
      BY TablesBySlot, CountBounds DEF TablesInv, CountsBounded
    <2>2. Used' = Used \ R /\ Used \cap R = R
      BY <1>2 DEF Used, Reclaimed
    <2>3. Cardinality(Used \ R) = Cardinality(Used) - Cardinality(Used \cap R)
      BY <2>1, FS_Difference
    <2>4. QED
      BY <1>2, <2>1, <2>2, <2>3 DEF CountAfter
  <1>10. TablesAgree'
    BY <1>7, <1>8, <1>9 DEF TablesAgree, Used, Taken, SlotAgrees, WildAgrees
  <1>11. TablesType'
    <2>1. topic_count' \in 0 .. MaxTopics /\ \A j \in Slots : sub_count'[j] \in 0 .. MaxSubs
      <3>1. CountsBounded'
        BY CountBounds, PTL
      <3>2. QED
        BY <1>7, <1>9, <3>1 DEF SlotAgrees, CountsBounded
    <2>2. /\ name' \in [Slots -> Names \cup {None}]
          /\ owner' \in [Boxes -> Components \cup {NoOwner}]
          /\ pattern' \in [WildBoxes -> Patterns \cup {None}]
      BY <1>2 DEF TablesInv, TablesType
    <2>3. sub_count' \in [Slots -> 0 .. MaxSubs]
      BY <1>2, <2>1
    <2>4. QED
      BY <2>1, <2>2, <2>3 DEF TablesType
  <1>12. QED
    BY <1>10, <1>11 DEF TablesInv

-----------------------------------------------------------------------------
\* A step that resets the mailboxes B, with the router's lock free, and takes
\* the others away from no subscriber.
Resets(B) ==
  /\ B \in SUBSET Boxes /\ acking = 0
  /\ Clear(B)
  /\ UNCHANGED <<last_received, acking, published>>
  /\ \A b \in Boxes \ B, n \in Names : Reaches(b, n) => Reaches(b, n)'

\* What msg_router_subscribe does: it gives a mailbox to c alone.
LEMMA SubscribeResets ==
  ASSUME TablesInv, NEW n \in Names \cup Patterns, NEW c \in Components,
         msg_router_subscribe(n, c)
  PROVE  \/ UNCHANGED routervars
         \/ /\ TablesInv'
            /\ \E B : Resets(B)
            /\ \A b \in Boxes : owner'[b] \in {owner[b], c}
  <1> SUFFICES ASSUME ~ UNCHANGED routervars
               PROVE  /\ TablesInv'
                      /\ \E B : Resets(B)
                      /\ \A b \in Boxes : owner'[b] \in {owner[b], c}
    OBVIOUS
  <1>1. acking = 0
    BY DEF msg_router_subscribe, LockFree
  <1>2. CASE n \in Patterns
    <2>1. SubscribeWild(n, c)
      BY <1>2 DEF msg_router_subscribe
    <2>2. PICK b \in WildBoxes :
           /\ pattern[b] = None /\ ~ HasWild(n, c)
           /\ pattern' = [pattern EXCEPT ![b] = n] /\ owner' = [owner EXCEPT ![b] = c]
           /\ Clear({b})
           /\ UNCHANGED <<name, sub_count, topic_count, last_received, acking, published>>
      BY <1>2, <2>1, SubscribeWildTables
    <2>3. TablesInv'
      BY <1>2, <2>2, WildKeepsTables
    <2>4. b \in Boxes /\ \A d \in Boxes \ {b} : owner'[d] = owner[d]
      BY <2>2, Layout DEF TablesInv, TablesType
    <2>5. \A d \in WildBoxes \ {b} : pattern'[d] = pattern[d]
      BY <2>2 DEF TablesInv, TablesType
    <2>6. \A d \in Boxes \ {b}, m \in Names : Reaches(d, m) => Reaches(d, m)'
      BY <2>2, <2>4, <2>5 DEF Reaches
    <2>7. Resets({b})
      BY <1>1, <2>2, <2>4, <2>6 DEF Resets
    <2>8. owner'[b] = c
      BY <2>2, <2>4 DEF TablesInv, TablesType
    <2>9. QED
      BY <2>3, <2>4, <2>7, <2>8
  <1>3. CASE n \notin Patterns
    <2>1. SubscribeTopic(n, c) /\ n \in Names
      BY <1>3 DEF msg_router_subscribe
    <2>2. PICK i \in Slots : \E b \in BoxesOf(i) :
           /\ owner[b] = NoOwner /\ ~ Subscribed(i, c)
           /\ name[i] = n \/ (name[i] = None /\ \A j \in Slots : name[j] # n)
           /\ name' = [name EXCEPT ![i] = n]
           /\ topic_count' = topic_count + (IF name[i] = None THEN 1 ELSE 0)
           /\ sub_count' = [sub_count EXCEPT ![i] = @ + 1]
           /\ owner' = [owner EXCEPT ![b] = c]
           /\ Clear({b})
           /\ UNCHANGED <<pattern, last_received, acking, published>>
      BY <2>1, SubscribeTopicTables
    <2>3. PICK b \in BoxesOf(i) :
           /\ owner[b] = NoOwner /\ ~ Subscribed(i, c)
           /\ name[i] = n \/ (name[i] = None /\ \A j \in Slots : name[j] # n)
           /\ name' = [name EXCEPT ![i] = n]
           /\ topic_count' = topic_count + (IF name[i] = None THEN 1 ELSE 0)
           /\ sub_count' = [sub_count EXCEPT ![i] = @ + 1]
           /\ owner' = [owner EXCEPT ![b] = c]
           /\ Clear({b})
           /\ UNCHANGED <<pattern, last_received, acking, published>>
      BY <2>2
    <2>4. TablesInv'
      BY <2>1, <2>3, TopicKeepsTables
    <2>5. b \in Boxes /\ \A d \in Boxes \ {b} : owner'[d] = owner[d]
      BY <2>3, Layout DEF TablesInv, TablesType
    <2>6. \A j \in Slots, m \in Names : name[j] = m => name'[j] = m
      BY <2>3, Marks DEF TablesInv, TablesType
    <2>7. \A d \in Boxes \ {b}, m \in Names : Reaches(d, m) => Reaches(d, m)'
      BY <2>3, <2>5, <2>6 DEF Reaches
    <2>8. Resets({b})
      BY <1>1, <2>3, <2>5, <2>7 DEF Resets
    <2>9. owner'[b] = c
      BY <2>3, <2>5 DEF TablesInv, TablesType
    <2>10. QED
      BY <2>4, <2>5, <2>8, <2>9
  <1>4. QED
    BY <1>2, <1>3

\* What msg_router_unsubscribe_all does: c keeps nothing.
LEMMA UnsubscribeResets ==
  ASSUME TablesInv, NEW c \in Components, msg_router_unsubscribe_all(c)
  PROVE  /\ TablesInv'
         /\ \E B : Resets(B)
         /\ \A b \in Boxes : owner'[b] \in {owner[b], NoOwner} /\ owner'[b] # c
  <1> DEFINE R == Reclaimed(c)
             B == Mine(c) \cup UNION {BoxesOf(i) : i \in R}
  <1>1. /\ owner' = [b \in Boxes |-> IF b \in B THEN NoOwner ELSE owner[b]]
        /\ pattern' = [b \in WildBoxes |-> IF b \in B THEN None ELSE pattern[b]]
        /\ name' = [i \in Slots |-> IF i \in R THEN None ELSE name[i]]
        /\ LockFree /\ Clear(B)
        /\ UNCHANGED <<last_received, acking, published>>
    BY Zenon DEF msg_router_unsubscribe_all
  <1>2. B \in SUBSET Boxes
    BY Layout DEF Mine, Reclaimed
  <1>3. \A i \in Slots : \A b \in BoxesOf(i) : b \notin B => i \notin R
    OBVIOUS
  <1>4. \A b \in Boxes : b \notin B => owner[b] # c
    BY DEF Mine
  <1> HIDE DEF B, R
  <1>5. ASSUME NEW b \in Boxes \ B, NEW n \in Names, Reaches(b, n)
        PROVE  Reaches(b, n)'
    <2>1. owner'[b] = owner[b]
      BY <1>1, <1>5
    <2>2. ASSUME NEW i \in Slots, b \in BoxesOf(i), name[i] = n PROVE name'[i] = n
      BY <1>1, <1>3, <1>5, <2>2
    <2>3. ASSUME b \in WildBoxes PROVE pattern'[b] = pattern[b]
      BY <1>1, <1>5, <2>3
    <2>4. QED
      BY <1>5, <2>1, <2>2, <2>3 DEF Reaches
  <1>6. Resets(B)
    BY <1>1, <1>2, <1>5 DEF Resets, LockFree
  <1>7. \A b \in Boxes : owner'[b] \in {owner[b], NoOwner} /\ owner'[b] # c
    BY <1>1, <1>4, Marks
  <1>8. QED
    BY <1>6, <1>7, UnsubscribeKeepsTables

-----------------------------------------------------------------------------
(***************************************************************************)
(* The mailboxes and the publishers.                                       *)
(***************************************************************************)
MsgType == [topic : Names \cup {None}, prio : Nat, from : Publishers \cup {None}, stale : BOOLEAN]

MailType ==
  /\ ready \in [Boxes -> {"idle", "writing", "full"}] /\ ack \in [Boxes -> 0 .. 1]
  /\ msg \in [Boxes -> MsgType] /\ taken \subseteq Boxes
  /\ last_received \in [Components -> Boxes \cup {0}]
  /\ acking \in Boxes \cup {0}
  /\ published \in 0 .. MaxPublish
  /\ pub \in [Publishers -> PubType]
  /\ \A p \in Publishers : pub[p].pc = "idle" <=> pub[p].targets = {}

\* A publisher that is not idle is at a mailbox.
LEMMA AtBox ==
  ASSUME MailType, NEW p \in Publishers, pub[p].pc # "idle"
  PROVE  Box(p) \in pub[p].targets /\ Box(p) \in Boxes
  <1>1. pub[p].targets \in SUBSET Boxes /\ pub[p].targets # {}
    BY DEF MailType, PubType
  <1>2. QED
    BY <1>1, BoxIsTarget DEF Box

\* A reset keeps what the mailboxes and the publishers rely on.
LEMMA ResetKeepsMail ==
  ASSUME MailType, MailInv, NEW B, Resets(B)
  PROVE  MailType' /\ MailInv'
  <1>1. /\ B \in SUBSET Boxes /\ acking = 0 /\ acking' = 0
        /\ taken' = (taken \ B) \cup
                      {b \in B : ready[b] = "writing" \/ (b \in taken /\ Writers(b) # {})}
        /\ ready' = [b \in Boxes |-> IF b \in B THEN "idle" ELSE ready[b]]
        /\ ack' = [b \in Boxes |-> IF b \in B THEN 0 ELSE ack[b]]
        /\ msg' = [b \in Boxes |-> IF b \in B THEN NoMsg ELSE msg[b]]
        /\ UNCHANGED <<last_received, acking, published>>
        /\ \A b \in Boxes \ B, n \in Names : Reaches(b, n) => Reaches(b, n)'
    BY DEF Resets, Clear, Claimed
  <1>2. pub' \in [Publishers -> PubType]
        /\ \A p \in Publishers :
             /\ pub'[p].pc = pub[p].pc /\ pub'[p].it = pub[p].it
             /\ pub'[p].targets = pub[p].targets
             /\ pub'[p].stale = pub[p].stale \cup (pub[p].targets \cap B)
             /\ pub'[p].acked <=> pub[p].acked
             /\ pub'[p].crowded <=> pub[p].crowded
             /\ pub'[p].gone <=> pub[p].gone \/ (pub[p].pc = "wait" /\ Box(p) \in B)
    <2>1. pub' = [p \in Publishers |->
               [pub[p] EXCEPT !.stale = @ \cup (pub[p].targets \cap B),
                              !.gone = @ \/ (pub[p].pc = "wait" /\ First(pub[p].targets) \in B)]]
      BY DEF Resets, Clear
    <2>2. ASSUME NEW p \in Publishers
          PROVE  /\ pub'[p].pc = pub[p].pc /\ pub'[p].it = pub[p].it
                 /\ pub'[p].targets = pub[p].targets
                 /\ pub'[p].stale = pub[p].stale \cup (pub[p].targets \cap B)
                 /\ pub'[p].acked <=> pub[p].acked
                 /\ pub'[p].crowded <=> pub[p].crowded
                 /\ pub'[p].gone <=> pub[p].gone \/ (pub[p].pc = "wait" /\ Box(p) \in B)
                 /\ pub'[p] \in PubType
      <3>1. pub[p] \in PubType
        BY DEF MailType
      <3>2. PICK g \in BOOLEAN : g <=> pub[p].gone \/ (pub[p].pc = "wait" /\ Box(p) \in B)
        OBVIOUS
      <3>3. g = (pub[p].gone \/ (pub[p].pc = "wait" /\ First(pub[p].targets) \in B))
        BY <3>2 DEF Box
      <3>4. pub'[p] = [pub[p] EXCEPT !.stale = pub[p].stale \cup (pub[p].targets \cap B),
                                     !.gone = g]
        BY <2>1, <3>3, Zenon
      <3>5. QED
        BY <1>1, <3>1, <3>2, <3>4 DEF PubType
    <2>3. pub' \in [Publishers -> PubType]
      BY <2>1, <2>2
    <2>4. QED
      BY <2>2, <2>3
  <1>3. NoMsg \in MsgType
    BY DEF NoMsg, MsgType
  <1>4. MailType'
    <2>1. taken' \subseteq Boxes
      BY <1>1 DEF MailType
    <2>2. \A p \in Publishers : pub'[p].pc = "idle" <=> pub'[p].targets = {}
      BY <1>2 DEF MailType
    <2>3. QED
      BY <1>1, <1>2, <1>3, <2>1, <2>2 DEF MailType
  <1>5. \A p \in Publishers : Box(p)' = Box(p)
    BY <1>2 DEF Box
  <1>6. PublishersInv'
    BY <1>1, <1>2, RouterAssumption DEF MailInv, PublishersInv, MailType, PubType
  <1>7. WritersInv'
    <2>1. ASSUME NEW p \in Publishers, pub[p].pc = "write", Box(p) \notin taken'
          PROVE  Box(p) \in Boxes \ B /\ Box(p) \notin taken
      <3>1. p \in Writers(Box(p)) /\ Box(p) \in Boxes
        BY <2>1, AtBox DEF Writers
      <3>2. Box(p) \notin taken => ready[Box(p)] = "writing"
        BY <2>1 DEF MailInv, WritersInv
      <3>3. QED
        BY <1>1, <2>1, <3>1, <3>2
    <2>2. QED
      BY <1>1, <1>2, <1>5, <2>1 DEF MailInv, WritersInv
  <1>8. FullInv' /\ RoutedToSubscriber'
    BY <1>1 DEF MailInv, FullInv, RoutedToSubscriber
  <1>9. CountingInv' /\ LandedUntilAcked'
    <2>1. ASSUME NEW p \in Publishers, pub[p].pc = "wait" PROVE Box(p) \in Boxes
      BY <2>1, AtBox
    <2>2. QED
      BY <1>1, <1>2, <1>5, <2>1 DEF MailInv, CountingInv, LandedUntilAcked
  <1>10. QED
    BY <1>4, <1>6, <1>7, <1>8, <1>9 DEF MailInv

\* A publisher that goes to a mailbox it gathered, or back to its caller, leaves
\* the mailboxes and the other publishers as they are.
LEMMA PublisherMoves ==
  ASSUME MailType, MailInv, NEW p \in Publishers, NEW r \in PubType,
         UNCHANGED <<tables, mailbox, last_received, acking>>,
         published' \in 0 .. MaxPublish,
         pub' = [pub EXCEPT ![p] = r],
         r.pc \in {"idle", "claim"}, r.pc = "idle" <=> r.targets = {},
         r.pc = "claim" => /\ r.it \in Publications /\ ~ r.acked
                           /\ \A b \in r.targets \ r.stale : Reaches(b, r.it.topic)
  PROVE  MailType' /\ MailInv'
  <1> USE DEF tables, mailbox
  <1>1. /\ pub'[p] = r /\ \A q \in Publishers \ {p} : pub'[q] = pub[q]
        /\ pub' \in [Publishers -> PubType]
    BY DEF MailType
  <1>2. MailType'
    BY <1>1 DEF MailType
  <1>3. \A q \in Publishers \ {p} : Box(q)' = Box(q)
    BY <1>1 DEF Box
  <1>4. \A b, n : Reaches(b, n)' <=> Reaches(b, n)
    BY DEF Reaches
  <1>5. PublishersInv'
    BY <1>1, <1>4 DEF MailInv, PublishersInv
  <1>6. WritersInv' /\ CountingInv' /\ LandedUntilAcked'
    BY <1>1, <1>3 DEF MailInv, WritersInv, CountingInv, LandedUntilAcked
  <1>7. FullInv' /\ RoutedToSubscriber'
    BY <1>4 DEF MailInv, FullInv, RoutedToSubscriber
  <1>8. QED
    BY <1>2, <1>5, <1>6, <1>7 DEF MailInv

\* The locals of a publisher about to claim a mailbox.
Claiming(it, T, S) == [NotPub EXCEPT !.pc = "claim", !.it = it, !.targets = T, !.stale = S]

\* They have their type.
LEMMA ClaimRecord ==
  \A it \in Publications : \A T, S \in SUBSET Boxes :
    /\ Claiming(it, T, S) \in PubType
    /\ Claiming(it, T, S).pc = "claim" /\ Claiming(it, T, S).it = it
    /\ Claiming(it, T, S).targets = T /\ Claiming(it, T, S).stale = S
    /\ ~ Claiming(it, T, S).acked
  BY ZenonT(40) DEF Claiming, NotPub, PubType, PubPcs

\* Where a publisher stands after it is done with a mailbox.
LEMMA NextTargetFacts ==
  ASSUME MailType, MailInv, NEW p \in Publishers, pub[p].pc # "idle"
  PROVE  /\ AtNext(p) \in PubType
         /\ AtNext(p).pc \in {"idle", "claim"}
         /\ AtNext(p).pc = "idle" <=> AtNext(p).targets = {}
         /\ AtNext(p).pc = "claim" =>
              /\ AtNext(p).it \in Publications /\ ~ AtNext(p).acked
              /\ \A b \in AtNext(p).targets \ AtNext(p).stale : Reaches(b, AtNext(p).it.topic)
  <1> DEFINE rest == pub[p].targets \ {Box(p)}
  <1>1. /\ pub[p] \in PubType /\ pub[p].it \in Publications
        /\ pub[p].targets \in SUBSET Boxes /\ pub[p].stale \in SUBSET Boxes
        /\ \A b \in pub[p].targets \ pub[p].stale : Reaches(b, pub[p].it.topic)
    BY DEF MailType, PubType, MailInv, PublishersInv
  <1>2. CASE rest = {}
    <2>1. AtNext(p) = NotPub
      BY <1>2 DEF AtNext
    <2>2. QED
      BY <2>1 DEF NotPub, PubType, PubPcs
  <1>3. CASE rest # {}
    <2>1. AtNext(p) = [NotPub EXCEPT !.pc = "claim", !.it = pub[p].it, !.targets = rest,
                                     !.stale = pub[p].stale \ {Box(p)}]
      BY <1>3 DEF AtNext
    <2>2. /\ AtNext(p).pc = "claim" /\ AtNext(p).it = pub[p].it
          /\ AtNext(p).targets = rest /\ AtNext(p).stale = pub[p].stale \ {Box(p)}
          /\ ~ AtNext(p).acked /\ AtNext(p) \in PubType
      <3>1. PICK T \in SUBSET Boxes, S \in SUBSET Boxes :
              T = rest /\ S = pub[p].stale \ {Box(p)}
        BY <1>1
      <3>2. PICK it \in Publications : it = pub[p].it
        BY <1>1
      <3>3. AtNext(p) = Claiming(it, T, S)
        BY <2>1, <3>1, <3>2, Zenon DEF Claiming
      <3>4. /\ Claiming(it, T, S) \in PubType
            /\ Claiming(it, T, S).pc = "claim" /\ Claiming(it, T, S).it = it
            /\ Claiming(it, T, S).targets = T /\ Claiming(it, T, S).stale = S
            /\ ~ Claiming(it, T, S).acked
        BY <3>1, <3>2, ClaimRecord
      <3>5. QED
        BY <3>1, <3>2, <3>3, <3>4, Zenon
    <2>3. QED
      BY <1>1, <1>3, <2>2
  <1>4. QED
    BY <1>2, <1>3

\* Gathering the mailboxes of a topic.
LEMMA GatherKeepsMail ==
  ASSUME MailType, MailInv, NEW p \in Publishers, NEW it \in Publications, Gather(p, it)
  PROVE  MailType' /\ MailInv'
  <1> DEFINE T == Targets(it.topic)
             r == [NotPub EXCEPT !.pc = "claim", !.it = it, !.targets = T]
  <1>1. T \in SUBSET Boxes /\ T # {}
    BY DEF Targets, Boxes, Gather
  <1>2. \A b \in T : Reaches(b, it.topic)
    BY DEF Targets, Reaches
  <1> HIDE DEF T
  <1>3. /\ r \in PubType /\ r.pc = "claim" /\ r.it = it /\ r.targets = T /\ r.acked = FALSE
    BY <1>1 DEF NotPub, PubType, PubPcs
  <1>4. pub' = [pub EXCEPT ![p] = r]
    BY Zenon DEF Gather, T
  <1>5. UNCHANGED <<tables, mailbox, last_received, acking>> /\ published' \in 0 .. MaxPublish
    <2>1. published \in 0 .. MaxPublish /\ published < MaxPublish /\ published' = published + 1
      BY DEF Gather, MailType
    <2>2. QED
      BY <2>1, RouterAssumption DEF Gather
  <1> HIDE DEF r
  <1>6. QED
    BY <1>1, <1>2, <1>3, <1>4, <1>5, PublisherMoves

\* A mailbox found busy, an acknowledgement counted, a timeout.
LEMMA LeaveKeepsMail ==
  ASSUME MailType, MailInv, NEW p \in Publishers, Abandon(p) \/ Counted(p) \/ AckTimeout(p)
  PROVE  MailType' /\ MailInv'
  <1>1. /\ pub[p].pc # "idle" /\ pub' = [pub EXCEPT ![p] = AtNext(p)]
        /\ UNCHANGED <<tables, mailbox, last_received, acking, published>>
    BY DEF Abandon, Counted, AckTimeout, NextTarget
  <1>2. published' \in 0 .. MaxPublish
    BY <1>1 DEF MailType
  <1>3. QED
    BY <1>1, <1>2, NextTargetFacts, PublisherMoves

\* The compare-and-swap of try_deliver makes the publisher the one writer.
LEMMA ClaimKeepsMail ==
  ASSUME MailType, MailInv, NEW p \in Publishers, Claim(p)
  PROVE  MailType' /\ MailInv'
  <1>1. PICK b \in Boxes : b = Box(p)
    BY AtBox DEF Claim
  <1>2. /\ pub[p].pc = "claim" /\ ready[b] = "idle" /\ b \in pub[p].targets
        /\ ready' = [ready EXCEPT ![b] = "writing"]
        /\ msg' = [msg EXCEPT ![b].stale = b \in pub[p].stale]
        /\ pub' = [pub EXCEPT ![p].pc = "write"]
        /\ UNCHANGED <<tables, ack, last_received, acking, published>>
    BY <1>1, AtBox DEF Claim, Idle
  <1>3. /\ ready' \in [Boxes -> {"idle", "writing", "full"}]
        /\ ready'[b] = "writing" /\ \A d \in Boxes \ {b} : ready'[d] = ready[d]
    BY <1>2 DEF MailType
  <1>4. /\ pub' \in [Publishers -> PubType]
        /\ \A q \in Publishers \ {p} : pub'[q] = pub[q]
        /\ pub'[p].pc = "write" /\ pub'[p].it = pub[p].it /\ pub'[p].targets = pub[p].targets
        /\ pub'[p].stale = pub[p].stale /\ pub'[p].acked = pub[p].acked
    <2>1. pub \in [Publishers -> PubType] /\ pub[p] \in PubType
      BY DEF MailType
    <2>2. pub'[p] = [pub[p] EXCEPT !.pc = "write"]
      BY <1>2, <2>1
    <2>3. [pub[p] EXCEPT !.pc = "write"] \in PubType
      BY <2>1 DEF PubType, PubPcs
    <2>4. QED
      BY <1>2, <2>1, <2>2, <2>3 DEF PubType
  <1>5. /\ msg' \in [Boxes -> MsgType]
        /\ \A d \in Boxes \ {b} : msg'[d] = msg[d]
        /\ msg'[b].stale <=> b \in pub[p].stale
        /\ msg'[b].from = msg[b].from
    <2>1. msg \in [Boxes -> MsgType] /\ msg[b] \in MsgType
      BY DEF MailType
    <2>2. PICK s \in BOOLEAN : s <=> b \in pub[p].stale
      OBVIOUS
    <2>3. msg'[b] = [msg[b] EXCEPT !.stale = s] /\ \A d \in Boxes \ {b} : msg'[d] = msg[d]
      BY <1>2, <2>1, <2>2
    <2>4. msg'[b] \in MsgType /\ (msg'[b].stale <=> s) /\ msg'[b].from = msg[b].from
      BY <2>1, <2>3 DEF MsgType
    <2>5. msg' = [d \in Boxes |-> msg'[d]]
      BY <1>2, <2>1
    <2>6. QED
      BY <2>1, <2>2, <2>3, <2>4, <2>5
  <1>6. MailType'
    BY <1>2, <1>3, <1>4, <1>5 DEF MailType, tables
  <1>7. \A q \in Publishers : Box(q)' = Box(q)
    BY <1>4 DEF Box
  <1>8. \A d, n : Reaches(d, n)' <=> Reaches(d, n)
    BY <1>2 DEF Reaches, tables
  <1>9. PublishersInv'
    BY <1>2, <1>4, <1>8 DEF MailInv, PublishersInv
  <1>10. WritersInv'
    <2>1. ASSUME NEW q \in Publishers, q # p, pub[q].pc = "write", Box(q) \notin taken
          PROVE  Box(q) \in Boxes \ {b}
      BY <1>2, <2>1, AtBox DEF MailInv, WritersInv
    <2>2. taken' = taken
      BY <1>2 DEF tables
    <2>3. QED
      BY <1>1, <1>2, <1>3, <1>4, <1>5, <1>7, <2>1, <2>2 DEF MailInv, WritersInv
  <1>11. FullInv' /\ RoutedToSubscriber'
    BY <1>2, <1>3, <1>5, <1>8 DEF MailInv, FullInv, RoutedToSubscriber, tables
  <1>12. ASSUME NEW q \in Publishers, pub'[q].pc = "wait"
         PROVE  /\ q # p /\ pub'[q] = pub[q] /\ Box(q) \in Boxes
                /\ ready[Box(q)] = "full" => /\ ready'[Box(q)] = "full"
                                             /\ msg'[Box(q)].from = msg[Box(q)].from
                /\ ready[Box(q)] # "full" => ready'[Box(q)] # "full"
    BY <1>2, <1>3, <1>4, <1>5, <1>12, AtBox
  <1>13. CountingInv' /\ LandedUntilAcked'
    BY <1>2, <1>7, <1>12 DEF MailInv, CountingInv, LandedUntilAcked, tables
  <1>14. QED
    BY <1>6, <1>9, <1>10, <1>11, <1>13 DEF MailInv

\* The stores of try_deliver up to READY_FULL.
LEMMA WriteKeepsMail ==
  ASSUME MailType, MailInv, NEW p \in Publishers, Write(p)
  PROVE  MailType' /\ MailInv'
  <1>1. PICK b \in Boxes : b = Box(p)
    BY AtBox DEF Write
  <1>2. PICK it \in Publications : it = pub[p].it
    BY DEF Write, MailInv, PublishersInv
  <1>3. /\ pub[p].pc = "write" /\ b \in pub[p].targets
        /\ b \notin taken =>
             /\ ready[b] = "writing"
             /\ msg[b].stale <=> b \in pub[p].stale
             /\ \A q \in Publishers : pub[q].pc = "write" /\ Box(q) = b => q = p
        /\ b \notin pub[p].stale => Reaches(b, it.topic)
        /\ ~ pub[p].acked
    BY <1>1, <1>2, AtBox DEF Write, MailInv, WritersInv, PublishersInv
  <1>4. /\ ready' = [ready EXCEPT ![b] = "full"]
        /\ ack' = [ack EXCEPT ![b] = 0]
        /\ msg' = [msg EXCEPT ![b] = [topic |-> it.topic, prio |-> it.prio, from |-> p,
                                      stale |-> msg[b].stale]]
        /\ UNCHANGED <<tables, last_received, acking, published>> /\ taken' = taken
    BY <1>1, <1>2 DEF Write, tables
  <1>5. /\ ready' \in [Boxes -> {"idle", "writing", "full"}]
        /\ ready'[b] = "full" /\ \A d \in Boxes \ {b} : ready'[d] = ready[d]
        /\ ack' \in [Boxes -> 0 .. 1]
        /\ ack'[b] = 0 /\ \A d \in Boxes \ {b} : ack'[d] = ack[d]
    BY <1>4 DEF MailType
  <1>6. /\ msg' \in [Boxes -> MsgType]
        /\ msg'[b].from = p /\ msg'[b].topic = it.topic /\ it.topic \in Names
        /\ b \notin taken => (msg'[b].stale <=> b \in pub[p].stale)
        /\ \A d \in Boxes \ {b} : msg'[d] = msg[d]
    <2>1. msg \in [Boxes -> MsgType] /\ msg[b].stale \in BOOLEAN
      BY DEF MailType, MsgType
    <2>2. it.topic \in Names /\ it.prio \in Nat
      BY RouterAssumption
    <2>3. [topic |-> it.topic, prio |-> it.prio, from |-> p, stale |-> msg[b].stale] \in MsgType
      BY <2>1, <2>2 DEF MsgType
    <2>4. QED
      BY <1>3, <1>4, <2>1, <2>2, <2>3
  <1>7. ASSUME NEW q \in Publishers, q # p
        PROVE  /\ pub'[q] \in PubType
               /\ pub'[q].pc = pub[q].pc /\ pub'[q].it = pub[q].it
               /\ pub'[q].targets = pub[q].targets /\ pub'[q].stale = pub[q].stale
               /\ pub'[q].acked = pub[q].acked /\ pub'[q].gone = pub[q].gone
               /\ pub'[q].crowded <=> pub[q].crowded \/ (pub[q].pc = "wait" /\ Box(q) = b)
    <2>1. pub[q] \in PubType
      BY DEF MailType
    <2>2. PICK g \in BOOLEAN : g = (pub[q].crowded \/ (pub[q].pc = "wait" /\ Box(q) = b))
      OBVIOUS
    <2>3. pub'[q] = [pub[q] EXCEPT !.crowded = g]
      BY <1>1, <1>7, <2>2 DEF Write, Waiting
    <2>4. QED
      BY <2>1, <2>2, <2>3 DEF PubType
  <1>8. /\ pub'[p] \in PubType /\ pub'[p].pc \in {"idle", "claim", "wait"}
        /\ pub'[p].pc = "idle" <=> pub'[p].targets = {}
        /\ pub'[p].pc # "idle" =>
             /\ pub'[p].it \in Publications /\ ~ pub'[p].acked
             /\ \A d \in pub'[p].targets \ pub'[p].stale : Reaches(d, pub'[p].it.topic)
        /\ pub'[p].pc = "wait" => /\ pub'[p].targets = pub[p].targets
                                  /\ pub'[p].crowded <=> acking = b
    <2>1. CASE it.nowait
      <3>1. pub'[p] = AtNext(p)
        BY <1>2, <2>1 DEF Write
      <3>2. QED
        BY <1>3, <3>1, NextTargetFacts
    <2>2. CASE ~ it.nowait
      <3>1. pub[p] \in PubType /\ pub[p].targets # {}
        BY <1>3 DEF MailType
      <3>2. PICK g \in BOOLEAN : g <=> acking = b
        OBVIOUS
      <3>3. pub'[p] = [pub[p] EXCEPT !.pc = "wait", !.crowded = g]
        BY <1>1, <1>2, <2>2, <3>2 DEF Write
      <3>4. /\ pub'[p] \in PubType /\ pub'[p].pc = "wait" /\ pub'[p].it = pub[p].it
            /\ pub'[p].targets = pub[p].targets /\ pub'[p].stale = pub[p].stale
            /\ (pub'[p].acked <=> pub[p].acked) /\ (pub'[p].crowded <=> g)
        BY <3>1, <3>3 DEF PubType, PubPcs
      <3>5. \A d \in pub[p].targets \ pub[p].stale : Reaches(d, pub[p].it.topic)
        BY <1>3 DEF MailInv, PublishersInv
      <3>6. QED
        BY <1>2, <1>3, <3>1, <3>2, <3>4, <3>5
    <2>3. QED
      BY <2>1, <2>2
  <1>9. pub' \in [Publishers -> PubType]
    <2>1. pub' = [q \in Publishers |-> pub'[q]]
      BY DEF Write
    <2>2. QED
      BY <1>7, <1>8, <2>1
  <1>10. MailType'
    <2>1. \A q \in Publishers : pub'[q].pc = "idle" <=> pub'[q].targets = {}
      BY <1>7, <1>8 DEF MailType
    <2>2. QED
      BY <1>4, <1>5, <1>6, <1>9, <2>1 DEF MailType
  <1>11. \A q \in Publishers \ {p} : Box(q)' = Box(q)
    BY <1>7 DEF Box
  <1>12. \A d, n : Reaches(d, n)' <=> Reaches(d, n)
    BY <1>4 DEF Reaches, tables
  <1>13. PublishersInv'
    BY <1>7, <1>8, <1>12 DEF MailInv, PublishersInv
  <1>14. WritersInv'
    <2>1. ASSUME NEW q \in Publishers, pub'[q].pc = "write", Box(q)' \notin taken
          PROVE  q # p /\ pub[q].pc = "write" /\ Box(q) \in Boxes \ {b} /\ Box(q)' = Box(q)
      BY <1>3, <1>7, <1>8, <1>11, <2>1, AtBox
    <2>2. QED
      BY <1>4, <1>5, <1>6, <1>7, <1>8, <1>11, <2>1 DEF MailInv, WritersInv
  <1>15. FullInv' /\ RoutedToSubscriber'
    BY <1>3, <1>4, <1>5, <1>6, <1>12 DEF MailInv, FullInv, RoutedToSubscriber
  <1>16. CountingInv' /\ LandedUntilAcked'
    <2>1. ASSUME NEW q \in Publishers, q # p, pub'[q].pc = "wait", Box(q) # b
          PROVE  /\ Box(q) \in Boxes \ {b} /\ Box(q)' = Box(q) /\ pub[q].pc = "wait"
                 /\ pub'[q].crowded <=> pub[q].crowded
      BY <1>7, <1>11, <2>1, AtBox
    <2>2. ASSUME NEW q \in Publishers, q # p, pub'[q].pc = "wait", Box(q) = b, b \notin taken
          PROVE  pub'[q].crowded /\ (pub'[q].acked \/ pub'[q].gone)
      BY <1>3, <1>7, <2>2 DEF MailInv, LandedUntilAcked
    <2>3. ASSUME pub'[p].pc = "wait"
          PROVE  Box(p)' = b /\ (pub'[p].crowded <=> acking' = b) /\ ~ pub'[p].acked
      BY <1>1, <1>4, <1>8, <2>3 DEF Box
    <2>4. CountingInv'
      <3>1. ASSUME NEW q \in Publishers, pub'[q].pc = "wait", Box(q)' \notin taken',
                   ~ pub'[q].crowded, ~ pub'[q].gone
            PROVE  /\ pub'[q].acked => ready'[Box(q)'] # "full"
                   /\ acking' = Box(q)' => pub'[q].acked
        <4>1. CASE q = p
          BY <2>3, <3>1, <4>1
        <4>2. CASE q # p
          BY <1>4, <1>5, <1>7, <1>11, <2>1, <2>2, <3>1, <4>2 DEF MailInv, CountingInv
        <4>3. QED
          BY <4>1, <4>2
      <3>2. QED
        BY <3>1 DEF CountingInv
    <2>5. LandedUntilAcked'
      <3>1. ASSUME NEW q \in Publishers, pub'[q].pc = "wait", Box(q)' \notin taken'
            PROVE  /\ \/ pub'[q].acked \/ pub'[q].gone
                      \/ ready'[Box(q)'] = "full" /\ msg'[Box(q)'].from = q
                   /\ ~ pub'[q].crowded /\ ~ pub'[q].gone =>
                        (ack'[Box(q)'] # 0 <=> pub'[q].acked /\ acking' # Box(q)')
        <4>1. CASE q = p
          BY <1>5, <1>6, <2>3, <3>1, <4>1
        <4>2. CASE q # p /\ Box(q) = b
          BY <1>4, <1>11, <2>2, <3>1, <4>2
        <4>3. CASE q # p /\ Box(q) # b
          BY <1>4, <1>5, <1>6, <1>7, <2>1, <3>1, <4>3 DEF MailInv, LandedUntilAcked
        <4>4. QED
          BY <4>1, <4>2, <4>3
      <3>2. QED
        BY <3>1 DEF LandedUntilAcked
    <2>6. QED
      BY <2>4, <2>5
  <1>17. QED
    BY <1>10, <1>13, <1>14, <1>15, <1>16 DEF MailInv

\* The scan of msg_router_receive for the highest priority ends at a mailbox.
LEMMA ReceiveFinds ==
  ASSUME MailType, NEW c
  PROVE  Found(c) \in Boxes \cup {0}
  <1>1. CASE Full(c) = {}
    BY <1>1 DEF Found
  <1>2. CASE Full(c) # {}
    <2>1. PICK n \in Nat : Boxes \subseteq 1 .. n
      BY Layout
    <2> DEFINE S == Full(c)
               f == [b \in S |-> msg[b].prio]
    <2>2. S \in SUBSET Boxes
      BY DEF Full
    <2>3. S \in SUBSET (1 .. n) /\ f \in [S -> Nat]
      BY <2>1, <2>2 DEF MailType, MsgType
    <2> HIDE DEF f
    <2>4. PICK b \in S : \A d \in S : f[d] <= f[b]
      BY <1>2, <2>1, <2>3, GreatestValue
    <2>5. \A d \in S : msg[d].prio <= msg[b].prio
      BY <2>4 DEF f
    <2>6. b \in Best(c)
      BY <2>4, <2>5 DEF Best
    <2>7. Best(c) \in SUBSET Boxes /\ Best(c) # {}
      BY <2>2, <2>6 DEF Best
    <2>8. First(Best(c)) \in Boxes
      BY <2>7, BoxIsTarget
    <2>9. QED
      BY <1>2, <2>8 DEF Found
  <1>3. QED
    BY <1>1, <1>2

\* msg_router_receive only notes the mailbox.
LEMMA ReceiveKeepsMail ==
  ASSUME MailType, MailInv, NEW c \in Components, msg_router_receive(c)
  PROVE  MailType' /\ MailInv'
  <1>1. /\ last_received' = [last_received EXCEPT ![c] = Found(c)]
        /\ UNCHANGED <<tables, mailbox, acking, pub, published>>
    BY DEF msg_router_receive
  <1>2. last_received' \in [Components -> Boxes \cup {0}]
    BY <1>1, ReceiveFinds DEF MailType
  <1> USE DEF tables, mailbox
  <1>3. MailType'
    BY <1>1, <1>2 DEF MailType
  <1>4. /\ \A p \in Publishers : Box(p)' = Box(p)
        /\ \A d, n : Reaches(d, n)' <=> Reaches(d, n)
    BY <1>1 DEF Box, Reaches
  <1>5. PublishersInv' /\ WritersInv' /\ FullInv' /\ CountingInv'
    BY <1>1, <1>4 DEF MailInv, PublishersInv, WritersInv, FullInv, CountingInv
  <1>6. RoutedToSubscriber' /\ LandedUntilAcked'
    BY <1>1, <1>4 DEF MailInv, RoutedToSubscriber, LandedUntilAcked
  <1>7. QED
    BY <1>3, <1>5, <1>6 DEF MailInv

\* The first store of msg_router_ack.
LEMMA AckIdleKeepsMail ==
  ASSUME MailType, MailInv, NEW c \in Components, AckIdle(c)
  PROVE  MailType' /\ MailInv'
  <1>1. PICK b \in Boxes \cup {0} : b = last_received[c]
    BY DEF MailType
  <1>2. PICK full \in BOOLEAN : full <=> b # 0 /\ ready[b] = "full"
    OBVIOUS
  <1>3. /\ acking = 0
        /\ ready' = IF full THEN [ready EXCEPT ![b] = "idle"] ELSE ready
        /\ acking' = IF full THEN b ELSE 0
        /\ msg' = IF full THEN [msg EXCEPT ![b] = NoMsg] ELSE msg
        /\ last_received' = [last_received EXCEPT ![c] = 0]
        /\ UNCHANGED <<tables, ack, published>> /\ taken' = taken
    BY <1>1, <1>2 DEF AckIdle, LockFree, tables
  <1>4. ASSUME NEW q \in Publishers
        PROVE  /\ pub'[q] \in PubType
               /\ pub'[q].pc = pub[q].pc /\ pub'[q].it = pub[q].it
               /\ pub'[q].targets = pub[q].targets /\ pub'[q].stale = pub[q].stale
               /\ pub'[q].crowded = pub[q].crowded /\ pub'[q].gone = pub[q].gone
               /\ pub'[q].acked <=>
                    pub[q].acked \/ (full /\ pub[q].pc = "wait" /\ Box(q) = b /\ msg[b].from = q)
    <2>1. pub[q] \in PubType
      BY DEF MailType
    <2>2. PICK g \in BOOLEAN :
            g <=> pub[q].acked \/ (full /\ pub[q].pc = "wait" /\ Box(q) = b /\ msg[b].from = q)
      OBVIOUS
    <2>3. pub'[q] = [pub[q] EXCEPT !.acked = g]
      BY <1>1, <1>2, <2>1, <2>2 DEF AckIdle, Waiting, PubType
    <2>4. QED
      BY <2>1, <2>2, <2>3 DEF PubType
  <1>5. pub' \in [Publishers -> PubType]
    <2>1. pub' = [q \in Publishers |-> pub'[q]]
      BY DEF AckIdle
    <2>2. QED
      BY <1>4, <2>1
  <1>6. /\ full => b \in Boxes /\ b # 0 /\ ready[b] = "full"
        /\ ready' \in [Boxes -> {"idle", "writing", "full"}]
        /\ full => ready'[b] = "idle"
        /\ \A d \in Boxes : ~ full \/ d # b => ready'[d] = ready[d]
        /\ 0 \notin Boxes
    BY <1>1, <1>2, <1>3, Layout DEF MailType
  <1>7. msg' \in [Boxes -> MsgType] /\ \A d \in Boxes : ~ full \/ d # b => msg'[d] = msg[d]
    <2>1. NoMsg \in MsgType
      BY DEF NoMsg, MsgType
    <2>2. QED
      BY <1>3, <1>6, <2>1 DEF MailType
  <1>8. MailType'
    <2>1. last_received' \in [Components -> Boxes \cup {0}] /\ acking' \in Boxes \cup {0}
      BY <1>1, <1>3 DEF MailType
    <2>2. \A q \in Publishers : pub'[q].pc = "idle" <=> pub'[q].targets = {}
      BY <1>4 DEF MailType
    <2>3. QED
      BY <1>3, <1>5, <1>6, <1>7, <2>1, <2>2 DEF MailType
  <1>9. \A q \in Publishers : Box(q)' = Box(q)
    BY <1>4 DEF Box
  <1>10. \A d, n : Reaches(d, n)' <=> Reaches(d, n)
    BY <1>3 DEF Reaches, tables
  <1>11. PublishersInv'
    BY <1>4, <1>10 DEF MailInv, PublishersInv
  <1>12. WritersInv'
    <2>1. ASSUME NEW q \in Publishers, pub[q].pc = "write", Box(q) \notin taken
          PROVE  Box(q) \in Boxes /\ (~ full \/ Box(q) # b)
      BY <1>6, <2>1, AtBox DEF MailInv, WritersInv
    <2>2. QED
      BY <1>3, <1>4, <1>6, <1>7, <1>9, <2>1 DEF MailInv, WritersInv
  <1>13. FullInv' /\ RoutedToSubscriber'
    BY <1>3, <1>6, <1>7, <1>10 DEF MailInv, FullInv, RoutedToSubscriber
  <1>14. ASSUME NEW q \in Publishers, pub[q].pc = "wait", Box(q) \notin taken
         PROVE  /\ \/ pub'[q].acked \/ pub'[q].gone
                   \/ ready'[Box(q)] = "full" /\ msg'[Box(q)].from = q
                /\ ~ pub'[q].crowded /\ ~ pub'[q].gone =>
                     /\ ack'[Box(q)] # 0 <=> pub'[q].acked /\ acking' # Box(q)
                     /\ pub'[q].acked => ready'[Box(q)] # "full"
                     /\ acking' = Box(q) => pub'[q].acked
    <2>1. Box(q) \in Boxes /\ Box(q) # 0
      BY <1>6, <1>14, AtBox
    <2>2. /\ \/ pub[q].acked \/ pub[q].gone
             \/ ready[Box(q)] = "full" /\ msg[Box(q)].from = q
          /\ ~ pub[q].crowded /\ ~ pub[q].gone =>
               /\ ack[Box(q)] # 0 <=> pub[q].acked /\ acking # Box(q)
               /\ pub[q].acked => ready[Box(q)] # "full"
      BY <1>14 DEF MailInv, CountingInv, LandedUntilAcked
    <2>3. CASE full /\ Box(q) = b
      BY <1>3, <1>4, <1>6, <1>14, <2>1, <2>2, <2>3
    <2>4. CASE ~ full \/ Box(q) # b
      BY <1>3, <1>4, <1>6, <1>7, <1>14, <2>1, <2>2, <2>4
    <2>5. QED
      BY <2>3, <2>4
  <1>15. CountingInv' /\ LandedUntilAcked'
    BY <1>3, <1>4, <1>9, <1>14 DEF CountingInv, LandedUntilAcked
  <1>16. QED
    BY <1>8, <1>11, <1>12, <1>13, <1>15 DEF MailInv

\* The second store of msg_router_ack.
LEMMA AckStoreKeepsMail ==
  ASSUME MailType, MailInv, AckStore
  PROVE  MailType' /\ MailInv'
  <1>1. /\ acking \in Boxes /\ acking' = 0 /\ 0 \notin Boxes
        /\ ack' = [ack EXCEPT ![acking] = 1]
        /\ UNCHANGED <<tables, ready, msg, last_received, pub, published>> /\ taken' = taken
    BY Layout DEF AckStore, MailType, tables
  <1>2. /\ ack' \in [Boxes -> 0 .. 1] /\ ack'[acking] = 1
        /\ \A d \in Boxes \ {acking} : ack'[d] = ack[d]
    BY <1>1 DEF MailType
  <1>3. MailType'
    BY <1>1, <1>2 DEF MailType
  <1>4. /\ \A p \in Publishers : Box(p)' = Box(p)
        /\ \A d, n : Reaches(d, n)' <=> Reaches(d, n)
    BY <1>1 DEF Box, Reaches, tables
  <1>5. PublishersInv' /\ WritersInv' /\ FullInv' /\ RoutedToSubscriber'
    BY <1>1, <1>4 DEF MailInv, PublishersInv, WritersInv, FullInv, RoutedToSubscriber
  <1>6. CountingInv' /\ LandedUntilAcked'
    <2>1. ASSUME NEW p \in Publishers, pub[p].pc = "wait" PROVE Box(p) \in Boxes
      BY <2>1, AtBox
    <2>2. QED
      BY <1>1, <1>2, <1>4, <2>1 DEF MailInv, CountingInv, LandedUntilAcked
  <1>7. QED
    BY <1>3, <1>5, <1>6 DEF MailInv

-----------------------------------------------------------------------------
(***************************************************************************)
(* The router as a whole: what its callers may do to it.                   *)
(***************************************************************************)
RouterInv == TablesInv /\ MailType /\ MailInv

\* One call of the router, or one step of a publisher.
RouterStep ==
  \/ UNCHANGED routervars
  \/ \E n \in Names \cup Patterns, c \in Components : msg_router_subscribe(n, c)
  \/ \E c \in Components : \/ msg_router_unsubscribe_all(c)
                           \/ msg_router_receive(c)
                           \/ AckIdle(c)
  \/ AckStore
  \/ \E p \in Publishers : Publish(p)

\* Nothing moved.
LEMMA RouterStutters ==
  ASSUME RouterInv, UNCHANGED routervars
  PROVE  RouterInv'
  <1> USE DEF routervars, tables, mailbox
  <1>1. TablesInv'
    <2>1. TablesType'
      BY DEF RouterInv, TablesInv, TablesType
    <2>2. TablesAgree'
      BY DEF RouterInv, TablesInv, TablesAgree
    <2>3. QED
      BY <2>1, <2>2 DEF TablesInv
  <1>2. MailType'
    BY DEF RouterInv, MailType
  <1>3. /\ \A p \in Publishers : Box(p)' = Box(p)
        /\ \A d, n : Reaches(d, n)' <=> Reaches(d, n)
    BY DEF Box, Reaches
  <1>4. MailInv'
    BY <1>3 DEF RouterInv, MailInv, PublishersInv, WritersInv, FullInv, CountingInv,
                RoutedToSubscriber, LandedUntilAcked
  <1>5. QED
    BY <1>1, <1>2, <1>4 DEF RouterInv

\* A step that leaves the tables alone keeps their agreement.
LEMMA TablesStutter ==
  ASSUME TablesInv, UNCHANGED tables
  PROVE  TablesInv'
  <1>1. TablesType'
    BY DEF TablesInv, TablesType, tables
  <1>2. TablesAgree'
    BY DEF TablesInv, TablesAgree, tables
  <1>3. QED
    BY <1>1, <1>2 DEF TablesInv

\* Every call and every publisher's step keeps the invariant of the router.
LEMMA RouterKept ==
  ASSUME RouterInv, RouterStep
  PROVE  RouterInv'
  <1>1. CASE UNCHANGED routervars
    BY <1>1, RouterStutters
  <1>2. ASSUME NEW n \in Names \cup Patterns, NEW c \in Components, msg_router_subscribe(n, c)
        PROVE  RouterInv'
    <2>1. CASE UNCHANGED routervars
      BY <2>1, RouterStutters
    <2>2. CASE TablesInv' /\ \E B : Resets(B)
      BY <2>2, ResetKeepsMail DEF RouterInv
    <2>3. QED
      BY <1>2, <2>1, <2>2, SubscribeResets DEF RouterInv
  <1>3. ASSUME NEW c \in Components, msg_router_unsubscribe_all(c) PROVE RouterInv'
    <2>1. TablesInv' /\ \E B : Resets(B)
      BY <1>3, UnsubscribeResets DEF RouterInv
    <2>2. QED
      BY <2>1, ResetKeepsMail DEF RouterInv
  <1>4. ASSUME NEW c \in Components, msg_router_receive(c) \/ AckIdle(c) PROVE RouterInv'
    <2>1. UNCHANGED tables
      BY <1>4 DEF msg_router_receive, AckIdle
    <2>2. QED
      BY <1>4, <2>1, TablesStutter, ReceiveKeepsMail, AckIdleKeepsMail DEF RouterInv
  <1>5. ASSUME AckStore PROVE RouterInv'
    <2>1. UNCHANGED tables
      BY <1>5 DEF AckStore
    <2>2. QED
      BY <1>5, <2>1, TablesStutter, AckStoreKeepsMail DEF RouterInv
  <1>6. ASSUME NEW p \in Publishers, Publish(p) PROVE RouterInv'
    <2>1. UNCHANGED tables
      BY <1>6 DEF Publish, Gather, Claim, Abandon, Write, Counted, AckTimeout
    <2>2. TablesInv'
      BY <2>1, TablesStutter DEF RouterInv
    <2>3. MailType' /\ MailInv'
      BY <1>6, GatherKeepsMail, ClaimKeepsMail, LeaveKeepsMail, WriteKeepsMail
         DEF Publish, RouterInv
    <2>4. QED
      BY <2>2, <2>3 DEF RouterInv
  <1>7. QED
    BY <1>1, <1>2, <1>3, <1>4, <1>5, <1>6 DEF RouterStep

-----------------------------------------------------------------------------
(***************************************************************************)
(* The registry, the tasks and the operator.                               *)
(***************************************************************************)
TaskPcs == {"free", "start", "subscribe", "poll", "ack", "store", "exit", "unsubscribe", "unload"}
OpPcs   == {"idle", "save", "updating", "unsubscribe", "unregister", "find", "drop",
            "register", "initializing", "create", "rollback", "resubscribe", "listen", "close"}

FeedType == [on : BOOLEAN, pc : {"poll", "ack", "store", "drain"}]

CompType ==
  /\ registry \in [Indexes -> [name : Builtins \cup {None}, state : States]]
  /\ task \in [Tasks -> [pc : TaskPcs, idx : Indexes \cup {0}, name : Builtins \cup {None}]]
  /\ op \in [pc : OpPcs, new : Builtins \cup {None}, idx : Indexes \cup {0}, saved : SUBSET Names]
  /\ feed \in FeedType
  /\ commands \in 0 .. MaxCommands /\ outlived \subseteq Indexes /\ orphaned \subseteq Indexes

CompInv == CompType /\ LocalsInv /\ RegistryInv

IInv == RouterInv /\ CompInv

\* The invariant gives the types the model states.
LEMMA IInvTypes == IInv => TypeOK
  <1> SUFFICES ASSUME IInv PROVE TypeOK
    OBVIOUS
  <1>1. RouterTypeOK
    <2>1. \A p \in Publishers : pub[p] \in PubType
      BY DEF IInv, RouterInv, MailType
    <2>2. \A p \in Publishers : /\ pub[p].pc \in {"idle", "claim", "write", "wait"}
                                /\ pub[p].targets \subseteq Boxes
      BY <2>1 DEF PubType, PubPcs
    <2>3. QED
      BY <2>2 DEF IInv, RouterInv, TablesInv, TablesType, MailType, MsgType, RouterTypeOK
  <1>2. QED
    BY <1>1 DEF IInv, CompInv, CompType, TypeOK, TaskPcs, OpPcs, FeedType

\* set_state of an entry.
LEMMA SetState ==
  ASSUME CompType, NEW i \in Indexes, NEW st \in States, set_state(i, st)
  PROVE  /\ registry' \in [Indexes -> [name : Builtins \cup {None}, state : States]]
         /\ \A j \in Indexes \ {i} : registry'[j] = registry[j]
         /\ registry'[i].state = IF is_active(i) THEN st ELSE registry[i].state
         /\ registry'[i].name = registry[i].name
         /\ \A j \in Indexes \ {i} : is_active(j)' <=> is_active(j)
         /\ is_active(i)' <=> is_active(i) /\ st # "unloaded"
  <1>1. /\ registry \in [Indexes -> [name : Builtins \cup {None}, state : States]]
        /\ registry[i] \in [name : Builtins \cup {None}, state : States]
    BY DEF CompType
  <1>2. registry' = IF is_active(i) THEN [registry EXCEPT ![i].state = st] ELSE registry
    BY DEF set_state
  <1>3. /\ registry' \in [Indexes -> [name : Builtins \cup {None}, state : States]]
        /\ \A j \in Indexes \ {i} : registry'[j] = registry[j]
        /\ registry'[i].state = IF is_active(i) THEN st ELSE registry[i].state
        /\ registry'[i].name = registry[i].name
    BY <1>1, <1>2
  <1>4. QED
    BY <1>3 DEF is_active

\* unregister of an entry: it is free, and noted if a task lives on.
LEMMA Unregister ==
  ASSUME CompType, LocalsInv, NEW i \in Indexes, unregister(i)
  PROVE  /\ registry' \in [Indexes -> [name : Builtins \cup {None}, state : States]]
         /\ \A j \in Indexes \ {i} : registry'[j] = registry[j] /\ (is_active(j)' <=> is_active(j))
         /\ registry'[i].state = "unloaded" /\ ~ is_active(i)'
         /\ outlived' \subseteq Indexes /\ outlived \subseteq outlived'
         /\ i \notin outlived' => Live(i) = {}
         /\ orphaned' = orphaned
  <1>1. /\ registry \in [Indexes -> [name : Builtins \cup {None}, state : States]]
        /\ registry' = [registry EXCEPT ![i] = IF is_active(i) THEN Free ELSE registry[i]]
        /\ outlived' = outlived \cup {j \in {i} : Live(j) # {}} /\ orphaned' = orphaned
    BY DEF CompType, unregister
  <1>2. Free \in [name : Builtins \cup {None}, state : States]
    BY DEF Free, States
  <1>3. /\ registry' \in [Indexes -> [name : Builtins \cup {None}, state : States]]
        /\ \A j \in Indexes \ {i} : registry'[j] = registry[j]
        /\ registry'[i] = IF is_active(i) THEN Free ELSE registry[i]
    BY <1>1, <1>2
  <1>4. registry'[i].state = "unloaded" /\ ~ is_active(i)'
    BY <1>3 DEF is_active, Free, LocalsInv
  <1>5. QED
    BY <1>1, <1>3, <1>4 DEF is_active, CompType

\* A task goes on to another control point.
LEMMA TaskGoes ==
  ASSUME CompType, NEW t \in Tasks, NEW x \in TaskPcs \ {"free"}, task[t].pc # "free",
         task' = [task EXCEPT ![t].pc = x]
  PROVE  /\ task' \in [Tasks -> [pc : TaskPcs, idx : Indexes \cup {0}, name : Builtins \cup {None}]]
         /\ task'[t].pc = x /\ task'[t].idx = task[t].idx /\ task'[t].name = task[t].name
         /\ \A u \in Tasks \ {t} : task'[u] = task[u]
         /\ \A i : Live(i)' = Live(i)
  <1>1. /\ task \in [Tasks -> [pc : TaskPcs, idx : Indexes \cup {0}, name : Builtins \cup {None}]]
        /\ task[t] \in [pc : TaskPcs, idx : Indexes \cup {0}, name : Builtins \cup {None}]
    BY DEF CompType
  <1>2. /\ task' \in [Tasks -> [pc : TaskPcs, idx : Indexes \cup {0}, name : Builtins \cup {None}]]
        /\ task'[t].pc = x /\ task'[t].idx = task[t].idx /\ task'[t].name = task[t].name
        /\ \A u \in Tasks \ {t} : task'[u] = task[u]
    BY <1>1
  <1>3. QED
    BY <1>2 DEF Live

\* A task ends.
LEMMA TaskEnds ==
  ASSUME CompType, NEW t \in Tasks, task[t].pc # "free", task' = [task EXCEPT ![t] = NoTask]
  PROVE  /\ task' \in [Tasks -> [pc : TaskPcs, idx : Indexes \cup {0}, name : Builtins \cup {None}]]
         /\ task'[t].pc = "free"
         /\ \A u \in Tasks \ {t} : task'[u] = task[u]
         /\ \A i : Live(i)' = Live(i) \ {t}
  <1>1. /\ task \in [Tasks -> [pc : TaskPcs, idx : Indexes \cup {0}, name : Builtins \cup {None}]]
        /\ NoTask \in [pc : TaskPcs, idx : Indexes \cup {0}, name : Builtins \cup {None}]
        /\ NoTask.pc = "free"
    BY DEF CompType, NoTask, TaskPcs
  <1>2. /\ task' \in [Tasks -> [pc : TaskPcs, idx : Indexes \cup {0}, name : Builtins \cup {None}]]
        /\ task'[t].pc = "free"
        /\ \A u \in Tasks \ {t} : task'[u] = task[u]
    BY <1>1
  <1>3. QED
    BY <1>2 DEF Live

-----------------------------------------------------------------------------
\* Steps that leave registry, tasks and subscriptions alone.
LEMMA OperatorMoves ==
  ASSUME CompInv, UNCHANGED <<registry, task, owner, outlived, orphaned>>, CompType',
         IF op'.pc \in AtEntry THEN op'.idx \in Indexes ELSE op'.idx = 0,
         op'.pc # "idle" => op'.new \in Builtins,
         op.pc \in {"unsubscribe", "unregister", "initializing"} => op' = op,
         op.pc \in {"create", "rollback"} => op'.pc \in {"create", "rollback"} /\ op'.idx = op.idx,
         op'.pc \in Fresh => op.pc \in Fresh,
         op'.pc \in {"unsubscribe", "unregister"} => op' = op
  PROVE  CompInv'
  <1> USE DEF AtEntry, Carries, Fresh, Away
  <1>1. \A i : /\ Live(i)' = Live(i) /\ (is_active(i)' <=> is_active(i)) /\ (Holds(i)' <=> Holds(i))
    BY DEF Live, is_active, Holds
  <1>2. LocalsInv'
    BY DEF CompInv, LocalsInv
  <1>3. ASSUME NEW i \in Indexes \ outlived PROVE EntryInv(i)'
    <2>1. EntryInv(i)
      BY DEF CompInv, RegistryInv
    <2>2. QED
      BY <1>1, <2>1 DEF EntryInv
  <1>4. RegistryInv'
    BY <1>3 DEF RegistryInv
  <1>5. QED
    BY <1>2, <1>4 DEF CompInv

OpType == [pc : OpPcs, new : Builtins \cup {None}, idx : Indexes \cup {0}, saved : SUBSET Names]

\* Only the operator's locals, the feed or the count of commands change.
LEMMA OpOnly ==
  ASSUME CompInv, UNCHANGED <<registry, task, outlived, orphaned>>,
         op' \in OpType, feed' = feed, commands' \in 0 .. MaxCommands
  PROVE  CompType'
  BY DEF CompInv, CompType, OpType

\* A new command: nothing in hand.
LEMMA CommandCount ==
  ASSUME CompInv, op.pc = "idle", commands < MaxCommands, commands' = commands + 1
  PROVE  commands' \in 0 .. MaxCommands
  <1>1. commands \in 0 .. MaxCommands
    BY DEF CompInv, CompType
  <1>2. QED
    BY <1>1, ComponentsAssumption

\* The first entry of a name, when there is one.
LEMMA FirstIndex ==
  ASSUME NEW S \in SUBSET Indexes, S # {}
  PROVE  First(S) \in S /\ First(S) \in Indexes
  <1>1. S \in SUBSET Nat
    BY ComponentsAssumption DEF Indexes
  <1>2. QED
    BY <1>1, FirstIsIn

\* Starting a command.
LEMMA CommandKeeps ==
  ASSUME CompInv, Command
  PROVE  CompInv'
  <1> USE DEF AtEntry, Carries, Fresh, Away, OpPcs
  <1>1. ASSUME NEW n \in Builtins, RunCommand(n) PROVE CompInv'
    <2>1. /\ op.pc = "idle" /\ op' = [NoOp EXCEPT !.pc = "find", !.new = n]
          /\ commands < MaxCommands /\ commands' = commands + 1
          /\ UNCHANGED <<registry, task, owner, outlived, orphaned, feed>>
      BY <1>1 DEF RunCommand, NewCommand, routervars, tables, ghosts
    <2>2. op' \in OpType /\ op'.pc = "find" /\ op'.idx = 0 /\ op'.new = n
      BY <2>1 DEF NoOp, OpType
    <2>3. CompType'
      BY <2>1, <2>2, CommandCount, OpOnly
    <2>4. QED
      BY <2>1, <2>2, <2>3, OperatorMoves
  <1>2. ASSUME NEW n \in Builtins, NEW old \in Builtins, SwapCommand(old, n) PROVE CompInv'
    <2>1. Named(old) \in SUBSET Indexes /\ Named(old) # {}
      BY <1>2 DEF SwapCommand, Named
    <2>2. PICK i \in Indexes : i = First(Named(old))
      BY <2>1, FirstIndex
    <2>3. /\ op.pc = "idle" /\ op' = [NoOp EXCEPT !.pc = "save", !.new = n, !.idx = i]
          /\ commands < MaxCommands /\ commands' = commands + 1
          /\ UNCHANGED <<registry, task, owner, outlived, orphaned, feed>>
      BY <1>2, <2>2 DEF SwapCommand, NewCommand, routervars, tables, ghosts
    <2>4. op' \in OpType /\ op'.pc = "save" /\ op'.idx = i /\ op'.new = n
      BY <2>3 DEF NoOp, OpType
    <2>5. CompType'
      BY <2>3, <2>4, CommandCount, OpOnly
    <2>6. QED
      BY <2>3, <2>4, <2>5, OperatorMoves
  <1>3. QED
    BY <1>1, <1>2 DEF Command

\* Steps of a command that only look.
LEMMA LookingKeeps ==
  ASSUME TablesInv, CompInv, SaveTopics \/ FindExisting \/ CreateFails
  PROVE  CompInv'
  <1> USE DEF AtEntry, Carries, Fresh, Away, OpPcs
  <1>1. /\ op \in OpType /\ NoOp \in OpType /\ NoOp.pc = "idle" /\ NoOp.idx = 0
        /\ commands \in 0 .. MaxCommands
        /\ op.pc \notin Away => op.new \in Builtins
        /\ IF op.pc \in AtEntry THEN op.idx \in Indexes ELSE op.idx = 0
    BY DEF CompInv, CompType, LocalsInv, NoOp, OpType
  <1>2. UNCHANGED <<registry, task, owner, outlived, orphaned, feed, commands>>
    BY DEF SaveTopics, FindExisting, CreateFails, OnlyOp, ghosts, routervars, tables
  <1>3. CASE SaveTopics
    <2>1. op.pc = "save"
      BY <1>3 DEF SaveTopics
    <2>2. CASE op' = NoOp
      <3>1. CompType'
        BY <1>1, <1>2, <2>2, OpOnly
      <3>2. QED
        BY <1>1, <1>2, <2>1, <2>2, <3>1, OperatorMoves
    <2>3. CASE op' = [op EXCEPT !.pc = "updating", !.saved = Subscriptions(op.idx)]
      <3>1. Subscriptions(op.idx) \in SUBSET Names
        BY DEF Subscriptions, Subscribed, TablesInv, TablesType
      <3>2. op' \in OpType /\ op'.pc = "updating" /\ op'.idx = op.idx /\ op'.new = op.new
        BY <1>1, <2>3, <3>1 DEF OpType
      <3>3. CompType'
        BY <1>1, <1>2, <3>2, OpOnly
      <3>4. QED
        BY <1>1, <1>2, <2>1, <3>2, <3>3, OperatorMoves
    <2>4. QED
      BY <1>3, <2>2, <2>3 DEF SaveTopics
  <1>4. CASE FindExisting
    <2>1. op.pc = "find"
      BY <1>4 DEF FindExisting
    <2>2. CASE op' = NoOp
      <3>1. CompType'
        BY <1>1, <1>2, <2>2, OpOnly
      <3>2. QED
        BY <1>1, <1>2, <2>1, <2>2, <3>1, OperatorMoves
    <2>3. CASE op' = [op EXCEPT !.pc = "register"]
      <3>1. op' \in OpType /\ op'.pc = "register" /\ op'.idx = op.idx /\ op'.new = op.new
        BY <1>1, <2>3 DEF OpType
      <3>2. CompType'
        BY <1>1, <1>2, <3>1, OpOnly
      <3>3. QED
        BY <1>1, <1>2, <2>1, <3>1, <3>2, OperatorMoves
    <2>4. CASE /\ Named(op.new) # {}
               /\ op' = [op EXCEPT !.pc = "drop", !.idx = First(Named(op.new))]
      <3>1. First(Named(op.new)) \in Indexes
        <4>1. Named(op.new) \in SUBSET Indexes
          BY DEF Named
        <4>2. QED
          BY <2>4, <4>1, FirstIndex
      <3>2. op' \in OpType /\ op'.pc = "drop" /\ op'.idx \in Indexes /\ op'.new = op.new
        BY <1>1, <2>4, <3>1 DEF OpType
      <3>3. CompType'
        BY <1>1, <1>2, <3>2, OpOnly
      <3>4. QED
        BY <1>1, <1>2, <2>1, <3>2, <3>3, OperatorMoves
    <2>5. QED
      BY <1>4, <2>2, <2>3, <2>4 DEF FindExisting
  <1>5. CASE CreateFails
    <2>1. op.pc = "create" /\ op' = [op EXCEPT !.pc = "rollback"]
      BY <1>5 DEF CreateFails, OpGo, TakesBack
    <2>2. op' \in OpType /\ op'.pc = "rollback" /\ op'.idx = op.idx /\ op'.new = op.new
      BY <1>1, <2>1 DEF OpType
    <2>3. CompType'
      BY <1>1, <1>2, <2>2, OpOnly
    <2>4. QED
      BY <1>1, <1>2, <2>1, <2>2, <2>3, OperatorMoves
  <1>6. QED
    BY <1>3, <1>4, <1>5

\* The operator's control point changes and nothing else of its locals.
LEMMA OpGoes ==
  ASSUME CompInv, NEW x \in OpPcs, OpGo(x)
  PROVE  op' \in OpType /\ op'.pc = x /\ op'.idx = op.idx /\ op'.new = op.new
  BY DEF OpGo, CompInv, CompType, OpType

\* The operator sets the state of the entry it has in hand.
LEMMA MarkingKeeps ==
  ASSUME CompInv, MarkUpdating \/ MarkInitializing
  PROVE  CompInv'
  <1> USE DEF AtEntry, Carries, Fresh, Away, OpPcs
  <1>1. PICK i \in Indexes : i = op.idx
    BY DEF MarkUpdating, MarkInitializing, CompInv, LocalsInv
  <1>2. PICK st \in States \ {"unloaded"} :
          /\ set_state(i, st)
          /\ \/ op.pc = "updating" /\ st = "updating" /\ OpGo("unsubscribe")
             \/ op.pc = "initializing" /\ st = "initializing" /\ OpGo("create")
    BY <1>1 DEF MarkUpdating, MarkInitializing, States
  <1>3. UNCHANGED <<owner, task, feed, commands, outlived, orphaned>>
    BY DEF MarkUpdating, MarkInitializing, OnlyOp, ghosts, routervars, tables
  <1>4. /\ op' \in OpType /\ op'.idx = i /\ op'.new = op.new
        /\ \/ op.pc = "updating" /\ st = "updating" /\ op'.pc = "unsubscribe"
           \/ op.pc = "initializing" /\ st = "initializing" /\ op'.pc = "create"
    BY <1>1, <1>2, OpGoes
  <1>5. /\ registry' \in [Indexes -> [name : Builtins \cup {None}, state : States]]
        /\ \A j \in Indexes \ {i} : registry'[j] = registry[j]
        /\ registry'[i].state = IF is_active(i) THEN st ELSE registry[i].state
        /\ registry'[i].name = registry[i].name
        /\ \A j \in Indexes : is_active(j)' <=> is_active(j)
    BY <1>2, SetState DEF CompInv
  <1>6. CompType'
    BY <1>3, <1>4, <1>5 DEF CompInv, CompType, OpType
  <1>7. LocalsInv'
    <2>1. \A j \in Indexes : registry[j].state # "updating"
      BY <1>4 DEF CompInv, LocalsInv
    <2>2. QED
      BY <1>1, <1>3, <1>4, <1>5, <2>1 DEF CompInv, LocalsInv, is_active
  <1>8. ASSUME NEW j \in Indexes \ outlived PROVE EntryInv(j)'
    <2>1. EntryInv(j) /\ Live(j)' = Live(j) /\ (Holds(j)' <=> Holds(j))
      BY <1>3 DEF CompInv, RegistryInv, Live, Holds
    <2>2. QED
      BY <1>1, <1>3, <1>4, <1>5, <2>1 DEF EntryInv
  <1>9. QED
    BY <1>3, <1>6, <1>7, <1>8 DEF CompInv, RegistryInv

\* The operator unregisters the entry it has in hand: swapped out, stale, or not
\* to be started.
LEMMA UnregisterKeeps ==
  ASSUME CompInv, SwapUnregisters \/ DropStale \/ RollBack
  PROVE  CompInv'
  <1> USE DEF AtEntry, Carries, Fresh, Away, OpPcs
  <1>1. PICK i \in Indexes : i = op.idx
    BY DEF SwapUnregisters, DropStale, RollBack, CompInv, LocalsInv
  <1>2. /\ op.pc \in {"unregister", "drop", "rollback"} /\ op.new \in Builtins
        /\ unregister(i) /\ op \in OpType
        /\ UNCHANGED <<owner, task, feed, commands>>
    BY <1>1 DEF SwapUnregisters, DropStale, RollBack, OnlyOp, ghosts, routervars, tables,
                CompInv, LocalsInv, CompType, OpType
  <1>3. /\ op' \in OpType /\ op'.idx = 0 /\ op'.pc \in {"find", "register", "idle"}
        /\ op'.pc # "idle" => op'.new = op.new
    <2>1. \/ op' = [op EXCEPT !.pc = "find", !.idx = 0]
          \/ op' = [op EXCEPT !.pc = "register", !.idx = 0]
          \/ op' = NoOp
      BY DEF SwapUnregisters, DropStale, RollBack
    <2>2. NoOp \in OpType /\ NoOp.idx = 0 /\ NoOp.pc = "idle"
      BY DEF NoOp, OpType
    <2>3. QED
      BY <1>2, <2>1, <2>2 DEF OpType
  <1>4. /\ registry' \in [Indexes -> [name : Builtins \cup {None}, state : States]]
        /\ \A j \in Indexes \ {i} : registry'[j] = registry[j] /\ (is_active(j)' <=> is_active(j))
        /\ registry'[i].state = "unloaded" /\ ~ is_active(i)'
        /\ outlived' \subseteq Indexes /\ outlived \subseteq outlived'
        /\ i \notin outlived' => Live(i) = {}
        /\ orphaned' = orphaned
    BY <1>2, Unregister DEF CompInv
  <1>5. CompType'
    BY <1>2, <1>3, <1>4 DEF CompInv, CompType, OpType
  <1>6. LocalsInv'
    BY <1>1, <1>2, <1>3, <1>4 DEF CompInv, LocalsInv
  <1>7. ASSUME NEW j \in Indexes \ outlived' PROVE EntryInv(j)'
    <2>1. EntryInv(j) /\ Live(j)' = Live(j) /\ (Holds(j)' <=> Holds(j))
      BY <1>2, <1>4 DEF CompInv, RegistryInv, Live, Holds
    <2>2. CASE j = i
      <3>1. Live(i) = {} /\ ~ Holds(i)
        BY <1>1, <1>2, <1>4, <2>1, <2>2 DEF EntryInv
      <3>2. QED
        BY <1>3, <1>4, <2>1, <2>2, <3>1 DEF EntryInv
    <2>3. CASE j # i
      BY <1>1, <1>2, <1>3, <1>4, <2>1, <2>3 DEF EntryInv
    <2>4. QED
      BY <2>2, <2>3
  <1>8. QED
    BY <1>5, <1>6, <1>7 DEF CompInv, RegistryInv

\* A free entry is taken for the new component.
LEMMA RegisterKeeps ==
  ASSUME CompInv, Register
  PROVE  CompInv'
  <1> USE DEF AtEntry, Carries, Fresh, Away, OpPcs
  <1> DEFINE free == {i \in Indexes : ~ is_active(i)}
  <1>1. /\ op.pc = "register" /\ op.new \in Builtins /\ op \in OpType /\ op.idx = 0
        /\ UNCHANGED <<owner, task, feed, commands, outlived, orphaned>>
    BY DEF Register, OnlyOp, ghosts, routervars, tables, CompInv, LocalsInv, CompType, OpType
  <1>2. CASE free = {}
    <2>1. op' = NoOp /\ UNCHANGED registry
      BY <1>2 DEF Register
    <2>2. NoOp \in OpType /\ NoOp.idx = 0 /\ NoOp.pc = "idle"
      BY DEF NoOp, OpType
    <2>3. CompType'
      BY <1>1, <2>1, <2>2, OpOnly DEF CompInv, CompType
    <2>4. QED
      BY <1>1, <2>1, <2>2, <2>3, OperatorMoves
  <1>3. CASE free # {}
    <2>1. PICK i \in Indexes : i = First(free) /\ ~ is_active(i)
      BY <1>3, FirstIndex
    <2>2. /\ registry' = [registry EXCEPT ![i] = [name |-> op.new, state |-> "loaded"]]
          /\ op' = [op EXCEPT !.pc = "initializing", !.idx = i]
      BY <1>3, <2>1 DEF Register
    <2>3. op' \in OpType /\ op'.pc = "initializing" /\ op'.idx = i /\ op'.new = op.new
      BY <1>1, <2>2 DEF OpType
    <2>4. /\ registry' \in [Indexes -> [name : Builtins \cup {None}, state : States]]
          /\ registry'[i].name = op.new /\ registry'[i].state = "loaded"
          /\ \A j \in Indexes \ {i} : registry'[j] = registry[j]
      BY <1>1, <2>2 DEF CompInv, CompType, States
    <2>5. is_active(i)' /\ \A j \in Indexes \ {i} : is_active(j)' <=> is_active(j)
      BY <1>1, <2>4, Marks DEF is_active
    <2>6. CompType'
      BY <1>1, <2>3, <2>4 DEF CompInv, CompType, OpType
    <2>7. LocalsInv'
      BY <1>1, <2>3, <2>4, Marks DEF CompInv, LocalsInv
    <2>8. ASSUME NEW j \in Indexes \ outlived PROVE EntryInv(j)'
      <3>1. EntryInv(j) /\ Live(j)' = Live(j) /\ (Holds(j)' <=> Holds(j))
        BY <1>1 DEF CompInv, RegistryInv, Live, Holds
      <3>2. CASE j = i
        <4>1. Live(i) = {} /\ ~ Holds(i)
          BY <2>1, <3>1, <3>2 DEF EntryInv
        <4>2. QED
          BY <2>3, <2>5, <3>1, <3>2, <4>1 DEF EntryInv
      <3>3. CASE j # i
        BY <1>1, <2>3, <2>4, <2>5, <3>1, <3>3 DEF EntryInv
      <3>4. QED
        BY <3>2, <3>3
    <2>9. QED
      BY <1>1, <2>6, <2>7, <2>8 DEF CompInv, RegistryInv
  <1>4. QED
    BY <1>2, <1>3

\* component_run starts the task of the entry it registered.
LEMMA CreateTaskKeeps ==
  ASSUME CompInv, NEW t \in Tasks, CreateTask(t)
  PROVE  CompInv'
  <1> USE DEF AtEntry, Carries, Fresh, Away, OpPcs
  <1>1. PICK i \in Indexes : i = op.idx
    BY DEF CreateTask, CompInv, LocalsInv
  <1>2. /\ op.pc = "create" /\ op.new \in Builtins /\ op \in OpType /\ task[t].pc = "free"
        /\ task' = [task EXCEPT ![t] = [pc |-> "start", idx |-> i, name |-> op.new]]
        /\ UNCHANGED <<registry, owner, feed, commands, outlived, orphaned>>
    BY <1>1 DEF CreateTask, routervars, tables, ghosts, CompInv, LocalsInv, CompType, OpType
  <1>3. /\ op' \in OpType
        /\ \/ op'.pc = "idle" /\ op'.idx = 0
           \/ op'.pc = "resubscribe" /\ op'.idx = i /\ op'.new = op.new
    <2>1. op' = NoOp \/ op' = [op EXCEPT !.pc = "resubscribe"]
      BY DEF CreateTask, Started
    <2>2. NoOp \in OpType /\ NoOp.idx = 0 /\ NoOp.pc = "idle"
      BY DEF NoOp, OpType
    <2>3. QED
      BY <1>1, <1>2, <2>1, <2>2 DEF OpType
  <1>4. /\ task' \in [Tasks -> [pc : TaskPcs, idx : Indexes \cup {0}, name : Builtins \cup {None}]]
        /\ task'[t].pc = "start" /\ task'[t].idx = i /\ task'[t].name = op.new
        /\ \A u \in Tasks \ {t} : task'[u] = task[u]
    BY <1>2 DEF CompInv, CompType, TaskPcs
  <1>5. /\ Live(i)' = Live(i) \cup {t}
        /\ \A j \in Indexes \ {i} : Live(j)' = Live(j)
    BY <1>2, <1>4 DEF Live
  <1>6. CompType'
    BY <1>2, <1>3, <1>4 DEF CompInv, CompType, OpType
  <1>7. LocalsInv'
    BY <1>2, <1>3, <1>4 DEF CompInv, LocalsInv
  <1>8. ASSUME NEW j \in Indexes \ outlived PROVE EntryInv(j)'
    <2>1. /\ EntryInv(j) /\ (is_active(j)' <=> is_active(j)) /\ (Holds(j)' <=> Holds(j))
      BY <1>2 DEF CompInv, RegistryInv, is_active, Holds
    <2>2. CASE j = i
      <3>1. Live(i) = {} /\ is_active(i) /\ ~ Holds(i)
        BY <1>1, <1>2, <2>1, <2>2 DEF EntryInv
      <3>2. Live(i)' = {t}
        BY <1>5, <3>1
      <3>3. QED
        BY <1>3, <1>4, <2>1, <2>2, <3>1, <3>2 DEF EntryInv
    <2>3. CASE j # i
      <3>1. Live(j)' = Live(j) /\ \A u \in Live(j) : task'[u] = task[u]
        BY <1>2, <1>4, <1>5, <2>3 DEF Live
      <3>2. QED
        BY <1>1, <1>2, <1>3, <2>1, <2>3, <3>1 DEF EntryInv
    <2>4. QED
      BY <2>2, <2>3
  <1>9. QED
    BY <1>2, <1>6, <1>7, <1>8 DEF CompInv, RegistryInv

-----------------------------------------------------------------------------
\* Who holds a subscription after the router's calls.
LEMMA HoldsAfterSubscribe ==
  ASSUME TablesInv, NEW n \in Names \cup Patterns, NEW c \in Components,
         msg_router_subscribe(n, c), NEW j \in Indexes, j # c, Holds(j)',
         j \in orphaned => j \in orphaned'
  PROVE  Holds(j)
  <1>1. CASE UNCHANGED routervars
    BY <1>1 DEF routervars, tables, Holds
  <1>2. CASE \A b \in Boxes : owner'[b] \in {owner[b], c}
    BY <1>2 DEF Holds
  <1>3. QED
    BY <1>1, <1>2, SubscribeResets

\* After the removal c holds none, and nobody holds more.
LEMMA HoldsAfterUnsubscribe ==
  ASSUME TablesInv, NEW c \in Components, msg_router_unsubscribe_all(c),
         NEW j \in Indexes, Holds(j)', j = c \/ (j \in orphaned => j \in orphaned')
  PROVE  Holds(j) /\ j # c
  <1>1. \A b \in Boxes : owner'[b] \in {owner[b], NoOwner} /\ owner'[b] # c
    BY UnsubscribeResets
  <1>2. j # NoOwner
    BY Marks
  <1>3. QED
    BY <1>1, <1>2 DEF Holds

\* component_hot_swap removes the subscriptions of the entry it replaces.
LEMMA SwapUnsubscribesKeeps ==
  ASSUME TablesInv, CompInv, SwapUnsubscribes
  PROVE  CompInv'
  <1> USE DEF AtEntry, Carries, Fresh, Away, OpPcs
  <1>1. PICK i \in Indexes : i = op.idx
    BY DEF SwapUnsubscribes, CompInv, LocalsInv
  <1>2. /\ op.pc = "unsubscribe" /\ OpGo("unregister") /\ msg_router_unsubscribe_all(i)
        /\ orphaned' = orphaned \ {i}
        /\ UNCHANGED <<registry, task, feed, commands, outlived>>
    BY <1>1 DEF SwapUnsubscribes
  <1>3. op' \in OpType /\ op'.pc = "unregister" /\ op'.idx = i /\ op'.new = op.new
    BY <1>1, <1>2, OpGoes
  <1>4. \A j \in Indexes : Holds(j)' => Holds(j) /\ j # i
    BY <1>2, HoldsAfterUnsubscribe, Marks
  <1>5. CompType'
    BY <1>2, <1>3 DEF CompInv, CompType, OpType
  <1>6. LocalsInv'
    BY <1>1, <1>2, <1>3 DEF CompInv, LocalsInv
  <1>7. ASSUME NEW j \in Indexes \ outlived PROVE EntryInv(j)'
    <2>1. EntryInv(j) /\ Live(j)' = Live(j) /\ (is_active(j)' <=> is_active(j))
      BY <1>2 DEF CompInv, RegistryInv, Live, is_active
    <2>2. QED
      BY <1>1, <1>2, <1>3, <1>4, <2>1 DEF EntryInv
  <1>8. QED
    BY <1>2, <1>5, <1>6, <1>7 DEF CompInv, RegistryInv

\* component_hot_swap subscribes for the task it has started.
LEMMA ResubscribeKeeps ==
  ASSUME TablesInv, CompInv, NEW n \in Names, Resubscribe(n)
  PROVE  CompInv'
  <1> USE DEF AtEntry, Carries, Fresh, Away, OpPcs
  <1>1. PICK i \in Indexes : i = op.idx
    BY DEF Resubscribe, CompInv, LocalsInv
  <1>2. /\ op.pc = "resubscribe" /\ msg_router_subscribe(n, i) /\ op \in OpType
        /\ op.new \in Builtins
        /\ orphaned' = orphaned \cup {j \in {i} : \A t \in Live(j) : task[t].pc = "unload"}
        /\ UNCHANGED <<registry, task, feed, commands, outlived>>
    BY <1>1 DEF Resubscribe, CompInv, LocalsInv, CompType, OpType
  <1>3. /\ op' \in OpType
        /\ \/ op'.pc = "idle" /\ op'.idx = 0
           \/ op'.pc = "resubscribe" /\ op'.idx = i /\ op'.new = op.new
    <2>1. op' = NoOp \/ op' = [op EXCEPT !.saved = op.saved \ {n}]
      BY DEF Resubscribe
    <2>2. NoOp \in OpType /\ NoOp.idx = 0 /\ NoOp.pc = "idle"
      BY DEF NoOp, OpType
    <2>3. QED
      BY <1>1, <1>2, <2>1, <2>2 DEF OpType
  <1>4. \A j \in Indexes \ {i} : Holds(j)' => Holds(j)
    BY <1>2, HoldsAfterSubscribe, Marks
  <1>5. /\ orphaned' \subseteq Indexes /\ orphaned \subseteq orphaned'
        /\ i \notin orphaned' => \E t \in Live(i) : task[t].pc # "unload"
    BY <1>2 DEF CompInv, CompType
  <1>6. CompType'
    BY <1>2, <1>3, <1>5 DEF CompInv, CompType, OpType
  <1>7. LocalsInv'
    BY <1>1, <1>2, <1>3 DEF CompInv, LocalsInv
  <1>8. ASSUME NEW j \in Indexes \ outlived PROVE EntryInv(j)'
    <2>1. EntryInv(j) /\ Live(j)' = Live(j) /\ (is_active(j)' <=> is_active(j))
      BY <1>2, <1>5 DEF CompInv, RegistryInv, Live, is_active
    <2>2. CASE j = i
      <3>1. Holds(i)' => Live(i) # {} /\ \A t \in Live(i) : task[t].pc # "unload"
        BY <1>5, <2>1, <2>2 DEF EntryInv, Holds
      <3>2. QED
        BY <1>1, <1>2, <1>3, <2>1, <2>2, <3>1 DEF EntryInv
    <2>3. CASE j # i
      BY <1>1, <1>2, <1>3, <1>4, <2>1, <2>3 DEF EntryInv
    <2>4. QED
      BY <2>2, <2>3
  <1>9. QED
    BY <1>2, <1>6, <1>7, <1>8 DEF CompInv, RegistryInv

\* Every step of a command.
LEMMA OperatorKeeps ==
  ASSUME TablesInv, CompInv, OperatorStep
  PROVE  CompInv'
  BY LookingKeeps, MarkingKeeps, UnregisterKeeps, RegisterKeeps, CreateTaskKeeps,
     SwapUnsubscribesKeeps, ResubscribeKeeps DEF OperatorStep

-----------------------------------------------------------------------------
\* What is common to the steps of the task t of entry i: its control point moves
\* on, the operator and the other entries are left alone.
LEMMA TaskStepKeeps ==
  ASSUME CompInv, NEW t \in Tasks, NEW i \in Indexes, task[t].pc # "free", task[t].idx = i,
         NEW x \in TaskPcs \ {"free"}, task' = [task EXCEPT ![t].pc = x],
         UNCHANGED <<op, feed, commands, outlived>>, orphaned' \subseteq Indexes,
         registry' \in [Indexes -> [name : Builtins \cup {None}, state : States]],
         \A j \in Indexes \ {i} : registry'[j] = registry[j],
         registry'[i].name = registry[i].name,
         registry'[i].state # registry[i].state =>
            registry'[i].state \in {"running", "terminating"} /\ is_active(i),
         \A j \in Indexes \ {i} : Holds(j)' => Holds(j),
         Holds(i)' => Holds(i) \/ (task[t].pc = "subscribe" /\ x = "poll"),
         x = "unload" => ~ Holds(i)',
         x = "exit" /\ is_active(i) => registry'[i].state = "terminating",
         task[t].pc = "exit" => registry'[i].state = registry[i].state,
         task[t].pc \in {"poll", "ack", "store"} => x \in {"poll", "ack", "store", "exit"},
         task[t].pc = "exit" => x = "unsubscribe",
         task[t].pc = "unsubscribe" => x = "unload",
         task[t].pc \notin {"unload"}
  PROVE  CompInv'
  <1> USE DEF AtEntry, Carries, Fresh
  <1>1. /\ task' \in [Tasks -> [pc : TaskPcs, idx : Indexes \cup {0}, name : Builtins \cup {None}]]
        /\ task'[t].pc = x /\ task'[t].idx = task[t].idx /\ task'[t].name = task[t].name
        /\ \A u \in Tasks \ {t} : task'[u] = task[u]
        /\ \A j : Live(j)' = Live(j)
    BY TaskGoes DEF CompInv
  <1>2. CompType'
    BY <1>1 DEF CompInv, CompType
  <1>3. \A j \in Indexes : is_active(j)' <=> is_active(j)
    BY DEF is_active
  <1>4. LocalsInv'
    BY <1>1 DEF CompInv, LocalsInv, is_active
  <1>5. t \in Live(i) /\ \A j : Live(j) \subseteq Tasks
    BY DEF Live
  <1>6. ASSUME NEW j \in Indexes \ outlived PROVE EntryInv(j)'
    <2>1. EntryInv(j)
      BY DEF CompInv, RegistryInv
    <2>2. CASE j # i
      <3>1. \A u \in Live(j) : task'[u] = task[u]
        BY <1>1, <2>2 DEF Live
      <3>2. QED
        BY <1>1, <1>3, <2>1, <2>2, <3>1 DEF EntryInv
    <2>3. CASE j = i
      <3>1. Live(i) = {t} /\ is_active(i)
        BY <1>5, <2>1, <2>3 DEF EntryInv
      <3>2. ~ (op.idx = i /\ op.pc \in Fresh)
        BY <2>1, <2>3, <3>1 DEF EntryInv
      <3>3. (op.idx = i /\ op.pc = "unregister" /\ Holds(i)') =>
               \/ x \in {"poll", "ack", "store", "unsubscribe"}
               \/ x = "exit" /\ registry'[i].state = "terminating"
        BY <2>1, <2>3, <3>1 DEF EntryInv
      <3>4. x = "exit" => registry'[i].state = "terminating"
        BY <3>1
      <3>5. Live(i)' = {t} /\ is_active(i)' /\ task'[t].pc = x
        BY <1>1, <1>3, <3>1
      <3>6. QED
        BY <2>3, <3>2, <3>3, <3>4, <3>5 DEF EntryInv
    <2>4. QED
      BY <2>2, <2>3
  <1>7. QED
    BY <1>2, <1>4, <1>6 DEF CompInv, RegistryInv

\* The control point of a live task, its entry and its component.
LEMMA TaskAtEntry ==
  ASSUME CompInv, NEW t \in Tasks, task[t].pc # "free"
  PROVE  \E i \in Indexes : /\ task[t].idx = i /\ i \in Components
                            /\ task[t].name \in Builtins /\ TopicOf(task[t].name) \in Names
  BY Marks, ComponentsAssumption DEF CompInv, LocalsInv

\* Start-up, failure to subscribe and the end of the wait for messages.
LEMMA StartAndTerminateKeep ==
  ASSUME CompInv, NEW t \in Tasks, Start(t) \/ Terminate(t)
  PROVE  CompInv'
  <1>1. /\ task[t].pc \in {"start", "poll", "subscribe"}
        /\ UNCHANGED <<owner, op, feed, commands, outlived, orphaned>>
    BY DEF Start, Terminate, TaskGo, OnlyTask, ghosts, routervars, tables
  <1>2. PICK i \in Indexes : task[t].idx = i
    BY <1>1, TaskAtEntry
  <1>3. PICK st \in {"running", "terminating"}, x \in {"subscribe", "exit"} :
          /\ set_state(i, st) /\ task' = [task EXCEPT ![t].pc = x]
          /\ \/ task[t].pc = "start" /\ st = "running" /\ x = "subscribe"
             \/ task[t].pc \in {"poll", "subscribe"} /\ st = "terminating" /\ x = "exit"
    BY <1>2 DEF Start, Terminate, TaskGo
  <1>4. st \in States /\ st # "unloaded" /\ x \in TaskPcs \ {"free"}
    BY DEF States, TaskPcs
  <1>5. /\ registry' \in [Indexes -> [name : Builtins \cup {None}, state : States]]
        /\ \A j \in Indexes \ {i} : registry'[j] = registry[j]
        /\ registry'[i].state = IF is_active(i) THEN st ELSE registry[i].state
        /\ registry'[i].name = registry[i].name
    BY <1>3, <1>4, SetState DEF CompInv
  <1>6. orphaned' \subseteq Indexes /\ \A j \in Indexes : Holds(j)' <=> Holds(j)
    BY <1>1 DEF Holds, CompInv, CompType
  <1>7. QED
    BY ZenonT(40), <1>1, <1>2, <1>3, <1>4, <1>5, <1>6, TaskStepKeeps

\* Receiving and acknowledging.
LEMMA ListeningKeeps ==
  ASSUME CompInv, NEW t \in Tasks, Receive(t) \/ Acknowledge(t) \/ AcknowledgeEnds(t)
  PROVE  CompInv'
  <1>1. /\ task[t].pc \in {"poll", "ack", "store"}
        /\ UNCHANGED <<registry, owner, op, feed, commands, outlived, orphaned>>
    BY DEF Receive, Acknowledge, AcknowledgeEnds, TaskGo, OnlyTask, ghosts, msg_router_receive, AckIdle,
           AckStore, tables
  <1>2. PICK i \in Indexes : task[t].idx = i
    BY <1>1, TaskAtEntry
  <1>3. PICK x \in {"poll", "ack", "store"} : task' = [task EXCEPT ![t].pc = x]
    BY DEF Receive, Acknowledge, AcknowledgeEnds, TaskGo
  <1>4. x \in TaskPcs \ {"free"}
    BY DEF TaskPcs
  <1>5. registry \in [Indexes -> [name : Builtins \cup {None}, state : States]]
    BY DEF CompInv, CompType
  <1>6. orphaned' \subseteq Indexes /\ \A j \in Indexes : Holds(j)' <=> Holds(j)
    BY <1>1 DEF Holds, CompInv, CompType
  <1>7. QED
    BY ZenonT(40), <1>1, <1>2, <1>3, <1>4, <1>5, <1>6, TaskStepKeeps

\* The task subscribes to its topic, or its cleanup removes its subscriptions.
LEMMA SubscribingKeeps ==
  ASSUME TablesInv, CompInv, NEW t \in Tasks, Subscribe(t) \/ CleanupUnsubscribes(t)
  PROVE  CompInv'
  <1>1. /\ task[t].pc \in {"subscribe", "unsubscribe"}
        /\ UNCHANGED <<registry, op, feed, commands, outlived>>
    BY DEF Subscribe, CleanupUnsubscribes, TaskGo, OnlyTask, ghosts
  <1>2. PICK i \in Indexes : task[t].idx = i /\ i \in Components
                             /\ TopicOf(task[t].name) \in Names
    BY <1>1, TaskAtEntry
  <1>3. PICK x \in {"poll", "unload"} :
          /\ task' = [task EXCEPT ![t].pc = x]
          /\ \/ /\ task[t].pc = "subscribe" /\ x = "poll" /\ orphaned' = orphaned
                /\ msg_router_subscribe(TopicOf(task[t].name), i)
             \/ /\ task[t].pc = "unsubscribe" /\ x = "unload" /\ orphaned' = orphaned \ {i}
                /\ msg_router_unsubscribe_all(i)
    BY <1>2 DEF Subscribe, CleanupUnsubscribes, TaskGo, OnlyTask, ghosts
  <1>4. x \in TaskPcs \ {"free"}
    BY DEF TaskPcs
  <1>5. registry \in [Indexes -> [name : Builtins \cup {None}, state : States]]
    BY DEF CompInv, CompType
  <1>6. /\ \A j \in Indexes \ {i} : Holds(j)' => Holds(j)
        /\ x = "unload" => ~ Holds(i)'
        /\ orphaned' \subseteq Indexes
    BY <1>2, <1>3, HoldsAfterSubscribe, HoldsAfterUnsubscribe DEF CompInv, CompType
  <1>7. QED
    BY <1>1, <1>2, <1>3, <1>4, <1>5, <1>6, TaskStepKeeps

\* The end of a task: its entry is unloaded, or the command that marked it
\* UPDATING carries it on.
LEMMA EndingKeeps ==
  ASSUME CompInv, NEW t \in Tasks,
         CleanupUnloads(t) \/ (CleanupLooks(t) /\ ~ OwnsSlot(t))
  PROVE  CompInv'
  <1> USE DEF AtEntry, Carries, Fresh
  <1>1. /\ task[t].pc \in {"exit", "unload"} /\ task' = [task EXCEPT ![t] = NoTask]
        /\ UNCHANGED <<owner, op, feed, commands, outlived, orphaned>>
    BY DEF CleanupUnloads, CleanupLooks, OnlyTask, ghosts, routervars, tables
  <1>2. PICK i \in Indexes : task[t].idx = i
    BY <1>1, TaskAtEntry
  <1>3. \/ task[t].pc = "unload" /\ set_state(i, "unloaded")
        \/ /\ task[t].pc = "exit" /\ registry' = registry
           /\ ~ (is_active(i) /\ registry[i].state \in {"terminating", "running"})
    BY <1>2 DEF CleanupUnloads, CleanupLooks, OwnsSlot
  <1>4. /\ task' \in [Tasks -> [pc : TaskPcs, idx : Indexes \cup {0}, name : Builtins \cup {None}]]
        /\ task'[t].pc = "free"
        /\ \A u \in Tasks \ {t} : task'[u] = task[u]
        /\ \A j : Live(j)' = Live(j) \ {t}
    BY <1>1, TaskEnds DEF CompInv
  <1>5. /\ registry' \in [Indexes -> [name : Builtins \cup {None}, state : States]]
        /\ \A j \in Indexes \ {i} : registry'[j] = registry[j]
        /\ registry'[i].name = registry[i].name
        /\ registry'[i].state # registry[i].state => registry'[i].state = "unloaded"
        /\ \A j \in Indexes \ {i} : is_active(j)' <=> is_active(j)
        /\ task[t].pc = "unload" => ~ is_active(i)'
        /\ task[t].pc = "exit" => registry' = registry /\ (is_active(i)' <=> is_active(i))
    <2>1. CASE task[t].pc = "exit"
      BY <1>3, <2>1 DEF CompInv, CompType, is_active
    <2>2. CASE task[t].pc = "unload"
      <3>1. set_state(i, "unloaded") /\ "unloaded" \in States
        BY <1>3, <2>2 DEF States
      <3>2. QED
        BY <2>2, <3>1, SetState DEF CompInv
    <2>3. QED
      BY <1>1, <2>1, <2>2
  <1>6. CompType'
    BY <1>1, <1>4, <1>5 DEF CompInv, CompType
  <1>7. LocalsInv'
    BY <1>1, <1>4, <1>5 DEF CompInv, LocalsInv
  <1>8. t \in Live(i) /\ \A j \in Indexes \ {i} : t \notin Live(j)
    BY <1>1, <1>2 DEF Live
  <1>9. ASSUME NEW j \in Indexes \ outlived PROVE EntryInv(j)'
    <2>1. EntryInv(j) /\ (Holds(j)' <=> Holds(j))
      BY <1>1 DEF CompInv, RegistryInv, Holds
    <2>2. CASE j # i
      <3>1. Live(j)' = Live(j) /\ \A u \in Live(j) : task'[u] = task[u]
        BY <1>4, <1>8, <2>2 DEF Live
      <3>2. QED
        BY <1>1, <1>5, <2>1, <2>2, <3>1 DEF EntryInv
    <2>3. CASE j = i
      <3>1. Live(i) = {t} /\ is_active(i)
        BY <1>8, <2>1, <2>3 DEF EntryInv
      <3>2. Live(i)' = {} /\ ~ (op.idx = i /\ op.pc \in Fresh)
        BY <1>4, <2>1, <2>3, <3>1 DEF EntryInv
      <3>3. CASE task[t].pc = "unload"
        <4>1. ~ Holds(i)
          BY <2>1, <2>3, <3>1, <3>3 DEF EntryInv
        <4>2. QED
          BY <1>1, <1>5, <2>1, <2>3, <3>2, <3>3, <4>1 DEF EntryInv
      <3>4. CASE task[t].pc = "exit"
        <4>1. registry[i].state = "updating"
          BY <1>3, <2>1, <2>3, <3>1, <3>4 DEF EntryInv
        <4>2. op.idx = i /\ op.pc \in {"unsubscribe", "unregister"}
          BY <4>1 DEF CompInv, LocalsInv
        <4>3. op.pc = "unregister" => ~ Holds(i)
          BY <2>1, <2>3, <3>1, <3>4, <4>1, <4>2 DEF EntryInv
        <4>4. QED
          BY <1>1, <1>5, <2>1, <2>3, <3>1, <3>2, <3>4, <4>2, <4>3 DEF EntryInv
      <3>5. QED
        BY <1>1, <3>3, <3>4
    <2>4. QED
      BY <2>2, <2>3
  <1>10. QED
    BY <1>1, <1>6, <1>7, <1>9 DEF CompInv, RegistryInv

\* The cleanup finds the entry to be the task's own.
LEMMA CleanupGoesOn ==
  ASSUME CompInv, NEW t \in Tasks, CleanupLooks(t), OwnsSlot(t)
  PROVE  CompInv'
  <1>1. /\ task[t].pc = "exit" /\ task' = [task EXCEPT ![t].pc = "unsubscribe"]
        /\ UNCHANGED <<registry, owner, op, feed, commands, outlived, orphaned>>
    BY DEF CleanupLooks, OnlyTask, ghosts, routervars, tables
  <1>2. PICK i \in Indexes : task[t].idx = i
    BY <1>1, TaskAtEntry
  <1>3. registry \in [Indexes -> [name : Builtins \cup {None}, state : States]]
    BY DEF CompInv, CompType
  <1>4. "unsubscribe" \in TaskPcs \ {"free"}
    BY DEF TaskPcs
  <1>5. orphaned' \subseteq Indexes /\ \A j \in Indexes : Holds(j)' <=> Holds(j)
    BY <1>1 DEF Holds, CompInv, CompType
  <1>6. QED
    BY <1>1, <1>2, <1>3, <1>4, <1>5, TaskStepKeeps

\* Every step of a task.
LEMMA TaskKeeps ==
  ASSUME TablesInv, CompInv, NEW t \in Tasks, TaskStep(t)
  PROVE  CompInv'
  BY StartAndTerminateKeep, ListeningKeeps, SubscribingKeeps, EndingKeeps, CleanupGoesOn
     DEF TaskStep

-----------------------------------------------------------------------------
\* Steps of the feed and of the publishers: nobody in the registry gets a
\* subscription by them.
LEMMA BystandersKeep ==
  ASSUME CompInv, UNCHANGED <<registry, task, outlived, orphaned>>,
         op' = op \/ (op.pc \in Away /\ op' \in OpType /\ op'.pc \in Away /\ op'.idx = 0),
         feed' \in FeedType, commands' \in 0 .. MaxCommands,
         \A j \in Indexes : Holds(j)' => Holds(j)
  PROVE  CompInv'
  <1>1. \A i : Live(i)' = Live(i) /\ (is_active(i)' <=> is_active(i))
    BY DEF Live, is_active
  <1>2. CompType'
    BY DEF CompInv, CompType, OpType
  <1>3. op' # op => op.idx = 0 /\ op.pc \in Away /\ op'.pc \in Away /\ op'.idx = 0
    BY DEF CompInv, LocalsInv, AtEntry, Away
  <1>4. LocalsInv'
    <2>1. CASE op' = op
      BY <2>1 DEF CompInv, LocalsInv
    <2>2. CASE op' # op
      <3>1. \A i \in Indexes : registry[i].state # "updating"
        BY <1>3, <2>2 DEF CompInv, LocalsInv, Away
      <3>2. op'.pc \notin AtEntry
        BY <1>3, <2>2 DEF AtEntry, Away
      <3>3. QED
        BY <1>3, <2>2, <3>1, <3>2 DEF CompInv, LocalsInv
    <2>3. QED
      BY <2>1, <2>2
  <1>5. ASSUME NEW i \in Indexes \ outlived PROVE EntryInv(i)'
    <2>1. EntryInv(i) /\ i # 0
      BY Marks DEF CompInv, RegistryInv
    <2>2. CASE op' = op
      BY <1>1, <2>1, <2>2 DEF EntryInv
    <2>3. CASE op' # op
      BY <1>1, <1>3, <2>1, <2>3 DEF EntryInv
    <2>4. QED
      BY <2>2, <2>3
  <1>6. QED
    BY <1>2, <1>4, <1>5 DEF CompInv, RegistryInv

\* Every step of the telemetry feed.
LEMMA FeedKeeps ==
  ASSUME TablesInv, CompInv, FeedStep
  PROVE  CompInv'
  <1>1. /\ UNCHANGED <<registry, task, outlived, orphaned>>
        /\ feed \in FeedType /\ commands \in 0 .. MaxCommands /\ op \in OpType
    BY DEF FeedStep, FeedStart, FeedListens, FeedStop, FeedUnsubscribes, FeedReceive, FeedAcks,
           FeedAckEnds, OnlyFeed, ghosts, CompInv, CompType, OpType
  <1>2. Feed \notin Indexes /\ FeedPattern \in Names \cup Patterns
    BY ComponentsAssumption DEF Feed, Indexes
  <1>3. CASE FeedReceive \/ FeedAcks \/ FeedAckEnds
    <2>1. UNCHANGED <<owner, op, commands>>
      BY <1>3 DEF FeedReceive, FeedAcks, FeedAckEnds, msg_router_receive, AckIdle, AckStore, tables
    <2>2. \E x \in {"poll", "ack", "store", "drain"} : feed' = [feed EXCEPT !.pc = x]
      BY <1>3 DEF FeedReceive, FeedAcks, FeedAckEnds
    <2>3. feed' \in FeedType
      BY <1>1, <2>2 DEF FeedType
    <2>4. \A j \in Indexes : Holds(j)' => Holds(j)
      BY <1>1, <2>1 DEF Holds
    <2>5. QED
      BY <1>1, <2>1, <2>3, <2>4, BystandersKeep
  <1>4. CASE FeedStart \/ FeedListens \/ FeedStop \/ FeedUnsubscribes
    <2>1. op.pc \in Away /\ \E x \in Away : op' = [NoOp EXCEPT !.pc = x]
      <3>1. NoOp = [NoOp EXCEPT !.pc = "idle"]
        BY DEF NoOp
      <3>2. QED
        BY <1>4, <3>1 DEF FeedStart, FeedListens, FeedStop, FeedUnsubscribes, NewCommand, Away
    <2>2. op' \in OpType /\ op'.pc \in Away /\ op'.idx = 0
      BY <2>1 DEF NoOp, OpType, OpPcs, Away
    <2>3. feed' \in FeedType
      BY <1>1, <1>4 DEF FeedStart, FeedListens, FeedStop, FeedUnsubscribes, FeedType
    <2>4. commands' \in 0 .. MaxCommands
      BY <1>1, <1>4, CommandCount
         DEF FeedStart, FeedListens, FeedStop, FeedUnsubscribes, NewCommand
    <2>5. \A j \in Indexes : Holds(j)' => Holds(j)
      <3>1. CASE FeedStart
        BY <1>1, <1>2, <3>1, HoldsAfterSubscribe, Marks DEF FeedStart
      <3>2. CASE FeedUnsubscribes
        BY <1>1, <3>2, HoldsAfterUnsubscribe, Marks DEF FeedUnsubscribes
      <3>3. CASE FeedListens \/ FeedStop
        BY <1>1, <3>3 DEF FeedListens, FeedStop, routervars, tables, Holds
      <3>4. QED
        BY <1>4, <3>1, <3>2, <3>3
    <2>6. QED
      BY <1>1, <2>1, <2>2, <2>3, <2>4, <2>5, BystandersKeep
  <1>5. QED
    BY <1>3, <1>4 DEF FeedStep

\* Every step of the system keeps the invariant of the component runtime.
LEMMA CompKept ==
  ASSUME TablesInv, CompInv, [Next]_vars
  PROVE  CompInv'
  <1>1. CASE UNCHANGED compvars /\ UNCHANGED owner
    <2>1. \A j \in Indexes : Holds(j)' => Holds(j)
      BY <1>1 DEF Holds, compvars, ghosts
    <2>2. QED
      BY <1>1, <2>1, BystandersKeep DEF compvars, ghosts, CompInv, CompType
  <1>2. ASSUME NEW p \in Publishers, Publish(p) PROVE UNCHANGED owner
    BY <1>2 DEF Publish, Gather, Claim, Abandon, Write, Counted, AckTimeout, tables
  <1>3. UNCHANGED vars => UNCHANGED compvars /\ UNCHANGED owner
    BY DEF vars, routervars, tables
  <1>4. QED
    BY <1>1, <1>2, <1>3, CommandKeeps, OperatorKeeps, TaskKeeps, FeedKeeps DEF Next

\* Every step of the system does one thing at most to the router.
LEMMA NextIsRouterStep ==
  ASSUME CompInv, [Next]_vars
  PROVE  RouterStep
  <1>1. ASSUME Command PROVE UNCHANGED routervars
    BY <1>1 DEF Command, RunCommand, SwapCommand
  <1>2. ASSUME OperatorStep PROVE RouterStep
    <2>1. ASSUME NEW n \in Names, Resubscribe(n)
          PROVE  op.idx \in Components /\ msg_router_subscribe(n, op.idx)
      BY <2>1, Marks DEF Resubscribe, CompInv, LocalsInv, AtEntry
    <2>2. ASSUME SwapUnsubscribes
          PROVE  op.idx \in Components /\ msg_router_unsubscribe_all(op.idx)
      BY <2>2, Marks DEF SwapUnsubscribes, CompInv, LocalsInv, AtEntry
    <2>3. ASSUME \/ SaveTopics \/ MarkUpdating \/ SwapUnregisters \/ FindExisting \/ DropStale
                 \/ Register \/ MarkInitializing \/ (\E t \in Tasks : CreateTask(t))
                 \/ CreateFails \/ RollBack
          PROVE  UNCHANGED routervars
      BY <2>3 DEF SaveTopics, MarkUpdating, SwapUnregisters, FindExisting, DropStale, Register,
                  MarkInitializing, CreateTask, CreateFails, RollBack, OnlyOp, ghosts
    <2>4. QED
      BY <1>2, <2>1, <2>2, <2>3 DEF OperatorStep, RouterStep
  <1>3. ASSUME NEW t \in Tasks, TaskStep(t) PROVE RouterStep
    <2>1. task[t].pc # "free"
      BY <1>3 DEF TaskStep, Start, Subscribe, Terminate, Receive, Acknowledge, AcknowledgeEnds,
                  CleanupLooks, CleanupUnsubscribes, CleanupUnloads, TaskGo
    <2>2. PICK c \in Components : task[t].idx = c /\ TopicOf(task[t].name) \in Names
      BY <2>1, TaskAtEntry
    <2>3. \/ UNCHANGED routervars \/ msg_router_subscribe(TopicOf(task[t].name), c)
          \/ msg_router_receive(c) \/ AckIdle(c) \/ AckStore \/ msg_router_unsubscribe_all(c)
      BY <1>3, <2>2 DEF TaskStep, Start, Subscribe, Terminate, Receive, Acknowledge,
                        AcknowledgeEnds, CleanupLooks, CleanupUnsubscribes, CleanupUnloads
    <2>4. QED
      BY <2>2, <2>3 DEF RouterStep
  <1>4. ASSUME FeedStep PROVE RouterStep
    <2>1. Feed \in Components /\ FeedPattern \in Patterns
      BY Marks, ComponentsAssumption
    <2>2. \/ UNCHANGED routervars
          \/ msg_router_subscribe(FeedPattern, Feed) \/ msg_router_receive(Feed)
          \/ AckIdle(Feed) \/ AckStore \/ msg_router_unsubscribe_all(Feed)
      BY <1>4 DEF FeedStep, FeedStart, FeedListens, FeedStop, FeedUnsubscribes, FeedReceive,
                  FeedAcks, FeedAckEnds
    <2>3. QED
      BY <2>1, <2>2 DEF RouterStep
  <1>5. UNCHANGED vars => UNCHANGED routervars
    BY DEF vars
  <1>6. QED
    BY <1>1, <1>2, <1>3, <1>4, <1>5 DEF Next, RouterStep

-----------------------------------------------------------------------------
(***************************************************************************)
(* The theorems.                                                           *)
(***************************************************************************)
\* With empty tables, idle mailboxes and a free registry the invariant holds.
LEMMA InitIInv == Init => IInv
  <1> SUFFICES ASSUME Init PROVE IInv
    OBVIOUS
  <1> USE DEF Init, RouterInit
  <1>1. TablesType
    BY RouterAssumption DEF TablesType
  <1>2. TablesAgree
    <2>1. Used = {} /\ \A i \in Slots : Taken(i) = {}
      BY Layout DEF Used, Taken
    <2>2. \A i \in Slots : SlotAgrees(i)
      BY <2>1, FS_EmptySet, Layout DEF SlotAgrees
    <2>3. WildAgrees
      BY Layout DEF WildAgrees
    <2>4. QED
      BY <2>1, <2>2, <2>3, FS_EmptySet, TablesBySlot
  <1>3. \A p \in Publishers : pub[p] = NotPub
    OBVIOUS
  <1>4. NotPub \in PubType /\ NotPub.pc = "idle" /\ NotPub.targets = {}
    BY DEF NotPub, PubType, PubPcs
  <1>5. NoMsg \in MsgType
    BY DEF NoMsg, MsgType
  <1>6. MailType
    BY <1>3, <1>4, <1>5, RouterAssumption DEF MailType
  <1>7. MailInv
    BY <1>3, <1>4 DEF MailInv, PublishersInv, WritersInv, FullInv, CountingInv,
                      RoutedToSubscriber, LandedUntilAcked
  <1>8. CompType
    BY ComponentsAssumption DEF CompType, Free, NoTask, NoOp, States, TaskPcs, OpPcs, FeedType
  <1>9. /\ \A t \in Tasks : task[t].pc = "free"
        /\ \A i \in Indexes : registry[i].state = "unloaded"
        /\ op.pc = "idle" /\ op.idx = 0
    BY DEF Free, NoTask, NoOp
  <1>10. LocalsInv
    BY <1>9 DEF LocalsInv, AtEntry, Away
  <1>11. \A i \in Indexes : Live(i) = {} /\ ~ is_active(i) /\ ~ Holds(i) /\ op.idx # i
    BY <1>9, Marks DEF Live, is_active, Holds
  <1>12. RegistryInv
    BY <1>11 DEF RegistryInv, EntryInv
  <1>13. QED
    BY <1>1, <1>2, <1>6, <1>7, <1>8, <1>10, <1>12 DEF IInv, RouterInv, TablesInv, CompInv

\* A step keeps the router's half by what it does to the router, and the other
\* half by the tables.
LEMMA NextIInv == IInv /\ [Next]_vars => IInv'
  <1> SUFFICES ASSUME IInv, [Next]_vars PROVE IInv'
    OBVIOUS
  <1>1. RouterInv'
    BY NextIsRouterStep, RouterKept DEF IInv
  <1>2. CompInv'
    BY CompKept DEF IInv, RouterInv
  <1>3. QED
    BY <1>1, <1>2 DEF IInv

\* The invariant is inductive.
THEOREM InductiveInvariant == Spec => []IInv
  BY InitIInv, NextIInv, PTL DEF Spec

\* Tables, mailboxes, registry, tasks and commands keep their types.
THEOREM TypeCorrect == Spec => []TypeOK
  BY InductiveInvariant, IInvTypes, PTL

\* Under any order of subscriptions and removals, by components that start, fail,
\* exit and are swapped, the counts of the router are what its slots hold, no
\* topic has two slots and no component two mailboxes for one topic or pattern.
THEOREM TablesStayInAgreement == Spec => []TablesAgree
  <1>1. IInv => TablesAgree
    BY DEF IInv, RouterInv, TablesInv
  <1>2. QED
    BY <1>1, InductiveInvariant, PTL

\* A message that waits in a mailbox is for the component subscribed there, or
\* was sent through a pointer gathered before the mailbox was last reset, or the
\* mailbox was taken over from a writer CLEAR_WAIT_MS was too short for.
THEOREM RoutedOrStale == Spec => []RoutedToSubscriber
  <1>1. IInv => RoutedToSubscriber
    BY DEF IInv, RouterInv, MailInv
  <1>2. QED
    BY <1>1, InductiveInvariant, PTL

\* What a waiting publisher wrote to a mailbox that no reset took over stays
\* until it is acknowledged or its mailbox reset, and a publisher alone at its mailbox counts what was acknowledged.
THEOREM LandedStays == Spec => []LandedUntilAcked
  <1>1. IInv => LandedUntilAcked
    BY DEF IInv, RouterInv, MailInv
  <1>2. QED
    BY <1>1, InductiveInvariant, PTL

\* Where no task outlived its registration, each entry of the registry has its
\* one task or the command at work on it, and who is subscribed is registered,
\* but for an index hot swap subscribed for after its task had unsubscribed.
THEOREM EntriesAreCarried == Spec => []EntriesCarried
  <1>1. ASSUME IInv, NEW i \in Indexes \ outlived
        PROVE  /\ is_active(i) => Live(i) # {} \/ op.idx = i
               /\ \A t, u \in Live(i) : t = u
               /\ i \notin orphaned => \A b \in Boxes : owner[b] = i => is_active(i)
    <2>1. EntryInv(i)
      BY <1>1 DEF IInv, CompInv, RegistryInv
    <2>2. QED
      BY <2>1 DEF EntryInv, Holds
  <1>2. IInv => EntriesCarried
    BY <1>1 DEF EntriesCarried
  <1>3. QED
    BY <1>2, InductiveInvariant, PTL
=============================================================================
