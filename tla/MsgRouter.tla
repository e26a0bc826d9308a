------------------------------- MODULE MsgRouter -------------------------------
(***************************************************************************)
(* The publish/subscribe router of runtime/src/msg_router.rs: topics, one  *)
(* mailbox per subscription, publishers that gather mailboxes under        *)
(* MSG_ROUTER_LOCK and fill them without it.                               *)
(*                                                                         *)
(* A mailbox is a number: those of topic slot i, then those of the         *)
(* wildcard subscriptions.  A message is its topic, priority and publisher.*)
(* The lock is held through one action, except by msg_router_ack, whose    *)
(* two stores publishers can come between.  A reset waits for a writer for *)
(* CLEAR_WAIT_MS and then takes the mailbox over: time is not counted, so  *)
(* it may do so whenever it meets one.  Left out: null and overlong        *)
(* arguments, and the flow-control counters.                               *)
(***************************************************************************)
EXTENDS Integers, FiniteSets

CONSTANTS
  Names, Patterns,        \* topic names, and names that end in '*'
  Matches(_, _),          \* Matches(p, n): wildcard_matches
  Components,             \* values of component_idx
  Publishers,
  Publications,           \* what they publish: topic, priority, with or without wait
  MaxTopics, MaxSubs, MaxWild,
  MaxPublish              \* bound on the number of publications

None    == "none"
NoOwner == -1

Slots     == 1 .. MaxTopics
BoxesOf(i) == (i - 1) * MaxSubs + 1 .. i * MaxSubs
SubBoxes  == 1 .. MaxTopics * MaxSubs
WildBoxes == MaxTopics * MaxSubs + 1 .. MaxTopics * MaxSubs + MaxWild
Boxes     == SubBoxes \cup WildBoxes

ASSUME RouterAssumption ==
  /\ MaxTopics \in Nat /\ MaxSubs \in Nat /\ MaxWild \in Nat /\ MaxPublish \in Nat
  /\ None \notin Names \cup Patterns \cup Publishers /\ Components \subseteq Nat
  /\ Publications \subseteq [topic : Names, prio : Nat, nowait : BOOLEAN]

VARIABLES
  name, sub_count,      \* of TOPICS[i]
  topic_count,
  owner,                \* component_idx of the subscription a mailbox is for
  pattern,              \* of the wildcard subscriptions
  ready, ack, msg,      \* the mailboxes
  last_received,
  acking,               \* the mailbox whose ack = 1 is still to be stored
  pub, published,
  taken                 \* history: the mailboxes taken over from a writer and not
                        \* reset since that writer ended

tables  == <<name, sub_count, topic_count, owner, pattern, taken>>
mailbox == <<ready, ack, msg>>
routervars == <<tables, mailbox, last_received, acking, pub, published>>

NoMsg  == [topic |-> None, prio |-> 0, from |-> None, stale |-> FALSE]
NotPub == [pc |-> "idle", it |-> None, targets |-> {}, stale |-> {}, acked |-> FALSE,
           gone |-> FALSE, crowded |-> FALSE]

RouterTypeOK ==
  /\ name \in [Slots -> Names \cup {None}] /\ sub_count \in [Slots -> 0 .. MaxSubs]
  /\ topic_count \in 0 .. MaxTopics
  /\ owner \in [Boxes -> Components \cup {NoOwner}]
  /\ pattern \in [WildBoxes -> Patterns \cup {None}] /\ taken \subseteq Boxes
  /\ ready \in [Boxes -> {"idle", "writing", "full"}] /\ ack \in [Boxes -> 0 .. 1]
  /\ msg \in [Boxes -> [topic : Names \cup {None}, prio : Nat,
                        from : Publishers \cup {None}, stale : BOOLEAN]]
  /\ last_received \in [Components -> Boxes \cup {0}]
  /\ acking \in Boxes \cup {0}
  /\ published \in 0 .. MaxPublish
  /\ \A p \in Publishers :
       /\ pub[p].pc \in {"idle", "claim", "write", "wait"}
       /\ pub[p].targets \subseteq Boxes /\ (pub[p].pc = "idle" <=> pub[p].targets = {})

RouterInit ==
  /\ name = [i \in Slots |-> None] /\ sub_count = [i \in Slots |-> 0] /\ topic_count = 0
  /\ owner = [b \in Boxes |-> NoOwner] /\ pattern = [b \in WildBoxes |-> None]
  /\ taken = {}
  /\ ready = [b \in Boxes |-> "idle"] /\ ack = [b \in Boxes |-> 0]
  /\ msg = [b \in Boxes |-> NoMsg]
  /\ last_received = [c \in Components |-> 0]
  /\ acking = 0
  /\ pub = [p \in Publishers |-> NotPub] /\ published = 0

First(S) == CHOOSE x \in S : \A y \in S : x <= y

-----------------------------------------------------------------------------
(***************************************************************************)
(* Mailbox::clear for the mailboxes B.  It claims each of them like a      *)
(* publisher, or after the wait takes it over from a writer, who then      *)
(* stores READY_FULL into the slot that was reset.                         *)
(* History: publishers that gathered one of them hold a stale pointer, and *)
(* the message of a waiting publisher is gone.                             *)
(***************************************************************************)
Box(p) == First(pub[p].targets)

Writers(b) == {p \in Publishers : pub[p].pc = "write" /\ Box(p) = b}

\* Mutant: the reset does not claim the mailbox, nor wait for who has.
ClearsAnything(b) == TRUE

Claimed(b) == ready[b] # "writing"

Clear(B) ==
  /\ taken' = (taken \ B) \cup
                {b \in B : ~ Claimed(b) \/ (b \in taken /\ Writers(b) # {})}
  /\ ready' = [b \in Boxes |-> IF b \in B THEN "idle" ELSE ready[b]]
  /\ ack' = [b \in Boxes |-> IF b \in B THEN 0 ELSE ack[b]]
  /\ msg' = [b \in Boxes |-> IF b \in B THEN NoMsg ELSE msg[b]]
  /\ pub' = [p \in Publishers |->
               [pub[p] EXCEPT !.stale = @ \cup (pub[p].targets \cap B),
                              !.gone = @ \/ (pub[p].pc = "wait" /\ First(pub[p].targets) \in B)]]

LockFree == acking = 0

\* msg_router_subscribe of a pattern, and of a topic.
HasWild(n, c) == \E b \in WildBoxes : pattern[b] = n /\ owner[b] = c
FreeWild      == {b \in WildBoxes : pattern[b] = None}

SubscribeWild(n, c) ==
  LET b == First(FreeWild) IN
  IF HasWild(n, c) \/ FreeWild = {}
  THEN UNCHANGED routervars
  ELSE /\ pattern' = [pattern EXCEPT ![b] = n]
       /\ owner' = [owner EXCEPT ![b] = c]
       /\ Clear({b})
       /\ UNCHANGED <<name, sub_count, topic_count, last_received, acking, published>>

TopicSlot(n) ==
  LET found == {i \in Slots : name[i] = n}  free == {i \in Slots : name[i] = None} IN
  CASE found # {} -> First(found)
    [] found = {} /\ free # {} -> First(free)
    [] OTHER -> 0

\* Mutant: a second subscription of the same component takes a second slot.
SubscribesTwice(i, c) == FALSE

Subscribed(i, c) == name[i] # None /\ \E b \in BoxesOf(i) : owner[b] = c

SubscribeTopic(n, c) ==
  LET i == TopicSlot(n)
      free == {b \in BoxesOf(i) : owner[b] = NoOwner}
      created == name[i] = None
  IN IF i = 0 \/ Subscribed(i, c) \/ free = {}
     THEN UNCHANGED routervars
     ELSE /\ name' = [name EXCEPT ![i] = n]
          /\ topic_count' = topic_count + (IF created THEN 1 ELSE 0)
          /\ sub_count' = [sub_count EXCEPT ![i] = @ + 1]
          /\ owner' = [owner EXCEPT ![First(free)] = c]
          /\ Clear({First(free)})
          /\ UNCHANGED <<pattern, last_received, acking, published>>

\* The result of msg_router_subscribe.
Accepted(n, c) ==
  IF n \in Patterns
  THEN HasWild(n, c) \/ FreeWild # {}
  ELSE TopicSlot(n) # 0 /\ \/ Subscribed(TopicSlot(n), c)
                           \/ \E b \in BoxesOf(TopicSlot(n)) : owner[b] = NoOwner

msg_router_subscribe(n, c) ==
  /\ LockFree
  /\ IF n \in Patterns THEN SubscribeWild(n, c) ELSE SubscribeTopic(n, c)

\* msg_router_unsubscribe_all.  A topic without subscribers is cleared.
Mine(c) == {b \in Boxes : owner[b] = c}

Left(i, c) == sub_count[i] - Cardinality(BoxesOf(i) \cap Mine(c))

Reclaimed(c) == {i \in Slots : name[i] # None /\ Left(i, c) <= 0}

CountAfter(c) == topic_count - Cardinality(Reclaimed(c))

msg_router_unsubscribe_all(c) ==
  LET B == Mine(c) \cup UNION {BoxesOf(i) : i \in Reclaimed(c)} IN
  /\ LockFree
  /\ owner' = [b \in Boxes |-> IF b \in B THEN NoOwner ELSE owner[b]]
  /\ pattern' = [b \in WildBoxes |-> IF b \in B THEN None ELSE pattern[b]]
  /\ sub_count' = [i \in Slots |-> IF i \in Reclaimed(c) THEN 0 ELSE Left(i, c)]
  /\ name' = [i \in Slots |-> IF i \in Reclaimed(c) THEN None ELSE name[i]]
  /\ topic_count' = CountAfter(c)
  /\ Clear(B)
  /\ UNCHANGED <<last_received, acking, published>>

\* msg_router_get_subscriptions: topics, not patterns.
Subscriptions(c) == {name[i] : i \in {j \in Slots : Subscribed(j, c)}}

-----------------------------------------------------------------------------
(***************************************************************************)
(* publish_internal and publish_internal_nowait, by p.                     *)
(***************************************************************************)
Targets(n) ==
  {b \in SubBoxes : owner[b] # NoOwner /\ \E i \in Slots : name[i] = n /\ b \in BoxesOf(i)}
  \cup {b \in WildBoxes : pattern[b] # None /\ owner[b] # NoOwner /\ Matches(pattern[b], n)}

Gather(p, it) ==
  /\ LockFree /\ pub[p].pc = "idle" /\ published < MaxPublish
  /\ Targets(it.topic) # {}
  /\ pub' = [pub EXCEPT ![p] = [NotPub EXCEPT !.pc = "claim", !.it = it,
                                              !.targets = Targets(it.topic)]]
  /\ published' = published + 1
  /\ UNCHANGED <<tables, mailbox, last_received, acking>>

\* On to the next target, or back to the caller with the count.
\* Mutant: the loop does not stop after the last target.
PastTheLast(p) == [pub[p] EXCEPT !.pc = "claim", !.targets = @ \ {Box(p)}]

AtNext(p) ==
  LET rest == pub[p].targets \ {Box(p)} IN
  IF rest = {} THEN NotPub
  ELSE [NotPub EXCEPT !.pc = "claim", !.it = pub[p].it, !.targets = rest,
                      !.stale = pub[p].stale \ {Box(p)}]

NextTarget(p) == pub' = [pub EXCEPT ![p] = AtNext(p)]

\* try_deliver: the compare-and-swap, then the stores up to READY_FULL.
\* Mutant: a load, then a store.
Claimable(b) == ready[b] # "full"

Idle(b) == ready[b] = "idle"

Claim(p) ==
  /\ pub[p].pc = "claim" /\ Idle(Box(p))
  /\ ready' = [ready EXCEPT ![Box(p)] = "writing"]
  /\ msg' = [msg EXCEPT ![Box(p)].stale = Box(p) \in pub[p].stale]
  /\ pub' = [pub EXCEPT ![p].pc = "write"]
  /\ UNCHANGED <<tables, ack, last_received, acking, published>>

\* The mailbox is busy: the message is dropped, by nowait at once, else when
\* ACK_TIMEOUT_SECS are over.
Abandon(p) ==
  /\ pub[p].pc = "claim" /\ ~ Idle(Box(p))
  /\ NextTarget(p)
  /\ UNCHANGED <<tables, mailbox, last_received, acking, published>>

Waiting(q, b) == pub[q].pc = "wait" /\ Box(q) = b

Write(p) ==
  LET b == Box(p)  it == pub[p].it IN
  /\ pub[p].pc = "write"
  /\ ready' = [ready EXCEPT ![b] = "full"]
  /\ ack' = [ack EXCEPT ![b] = 0]
  /\ msg' = [msg EXCEPT ![b] = [topic |-> it.topic, prio |-> it.prio, from |-> p,
                                stale |-> @.stale]]
  /\ pub' = [q \in Publishers |->
       CASE q # p -> [pub[q] EXCEPT !.crowded = @ \/ Waiting(q, b)]
         [] q = p /\ it.nowait -> AtNext(p)
         [] q = p /\ ~ it.nowait -> [pub[p] EXCEPT !.pc = "wait", !.crowded = (acking = b)]]
  /\ UNCHANGED <<tables, last_received, acking, published>>

Counted(p) ==
  /\ pub[p].pc = "wait" /\ ack[Box(p)] # 0
  /\ NextTarget(p)
  /\ UNCHANGED <<tables, mailbox, last_received, acking, published>>

AckTimeout(p) ==
  /\ pub[p].pc = "wait" /\ ack[Box(p)] = 0
  /\ NextTarget(p)
  /\ UNCHANGED <<tables, mailbox, last_received, acking, published>>

Publish(p) ==
  \/ \E it \in Publications : Gather(p, it)
  \/ Claim(p) \/ Abandon(p) \/ Write(p) \/ Counted(p) \/ AckTimeout(p)

-----------------------------------------------------------------------------
(***************************************************************************)
(* msg_router_receive and msg_router_ack for component c.                  *)
(***************************************************************************)
Full(c) == {b \in Boxes : owner[b] = c /\ ready[b] = "full"}

Best(c) == {b \in Full(c) : \A d \in Full(c) : msg[d].prio <= msg[b].prio}

Found(c) == IF Full(c) = {} THEN 0 ELSE First(Best(c))

msg_router_receive(c) ==
  /\ LockFree
  /\ last_received' = [last_received EXCEPT ![c] = Found(c)]
  /\ UNCHANGED <<tables, mailbox, acking, pub, published>>

\* ready = READY_IDLE, if the mailbox still is full ...
AckIdle(c) ==
  LET b == last_received[c]  full == b # 0 /\ ready[b] = "full" IN
  /\ LockFree
  /\ ready' = IF full THEN [ready EXCEPT ![b] = "idle"] ELSE ready
  /\ acking' = IF full THEN b ELSE 0
  /\ pub' = [q \in Publishers |-> [pub[q] EXCEPT !.acked =
                @ \/ (full /\ Waiting(q, b) /\ msg[b].from = q)]]
  /\ msg' = IF full THEN [msg EXCEPT ![b] = NoMsg] ELSE msg
  /\ last_received' = [last_received EXCEPT ![c] = 0]
  /\ UNCHANGED <<tables, ack, published>>

\* ... then ack = 1.
AckStore ==
  /\ acking # 0
  /\ ack' = [ack EXCEPT ![acking] = 1]
  /\ acking' = 0
  /\ UNCHANGED <<tables, ready, msg, last_received, pub, published>>

-----------------------------------------------------------------------------
(***************************************************************************)
(* Properties.                                                             *)
(***************************************************************************)
\* The tables agree under any order of subscriptions and removals: counts are
\* what the slots hold, no topic has two slots, no component two mailboxes for
\* one topic or pattern (it would be sent everything twice).
TablesAgree ==
  /\ topic_count = Cardinality({i \in Slots : name[i] # None})
  /\ \A i \in Slots :
       /\ sub_count[i] = Cardinality({b \in BoxesOf(i) : owner[b] # NoOwner})
       /\ name[i] = None <=> sub_count[i] = 0
       /\ \A j \in Slots \ {i} : name[i] # None => name[i] # name[j]
       /\ \A b, d \in BoxesOf(i) : owner[b] = owner[d] /\ owner[b] # NoOwner => b = d
  /\ \A b, d \in WildBoxes :
       pattern[b] = pattern[d] /\ owner[b] = owner[d] /\ owner[b] # NoOwner => b = d

\* A message waits where a component is subscribed to its topic, unless its
\* publisher gathered the mailbox before the mailbox was last reset and claimed
\* it after.  The reset of a slot leaves nothing of its past, and a write claimed
\* before the reset ends after it only in a mailbox the reset took over, where a
\* stale or torn message is accepted as the lesser failure until the slot is
\* reset again.
Reaches(b, n) ==
  /\ owner[b] # NoOwner
  /\ \/ \E i \in Slots : b \in BoxesOf(i) /\ name[i] = n
     \/ b \in WildBoxes /\ pattern[b] # None /\ Matches(pattern[b], n)

RoutedToSubscriber ==
  \A b \in Boxes \ taken : ready[b] = "full" => msg[b].stale \/ Reaches(b, msg[b].topic)

\* What has landed stays until it is acknowledged or its subscription removed:
\* no publisher overwrites an unread message, in a mailbox that was not taken
\* over (there the late writer may).  And a publisher that had the mailbox to
\* itself counts exactly what was acknowledged.  (With a second publisher the count is not exact: it may write
\* between the two stores of msg_router_ack and take the acknowledgement of the
\* message before for its own, or reset an acknowledgement nobody read yet.)
LandedUntilAcked ==
  \A p \in Publishers : pub[p].pc = "wait" /\ Box(p) \notin taken =>
    /\ \/ pub[p].acked \/ pub[p].gone
       \/ ready[Box(p)] = "full" /\ msg[Box(p)].from = p
    /\ ~ pub[p].crowded /\ ~ pub[p].gone =>
         (ack[Box(p)] # 0 <=> pub[p].acked /\ acking # Box(p))
=============================================================================
