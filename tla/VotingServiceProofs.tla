------------------------ MODULE VotingServiceProofs ------------------------
(***************************************************************************)
(* A vote is on disk before it leaves the node, and no vote that has left  *)
(* it is ever contradicted: for every set of votes, any number of crashes, *)
(* any size of the channel and any number of spare identities.  What the   *)
(* code gets wrong is exempt and nothing else is: the votes that were      *)
(* refreshed before a save covered them (unbacked), and what comes after a *)
(* history that was restored without all that had been saved or was about  *)
(* to be (lapses).                                                         *)
(***************************************************************************)
EXTENDS VotingService, TLAPS

(***************************************************************************)
(* The inductive invariant.  The histories that are still to be saved grow *)
(* along the way from the disk over the channel and the batch to the event *)
(* handler, and every vote comes with or after a history that covers it.   *)
(***************************************************************************)
\* A history keeps no vote below its root.
Histories == {h \in [votes : SUBSET Votes, root : Nat] : \A v \in h.votes : v.slot >= h.root}

Kinds == {"PushVote", "RefreshVote", "PushCertificate", "RefreshCertificate"}

Ops == [kind : Kinds, vote : Votes, saved : Histories, id : {Staked}]

VotingTypeOK ==
    /\ identity \in Identities
    /\ history \in Histories
    /\ batch \in Seq(Ops) /\ bls \in Seq(Ops)
    /\ refresh_queue \subseteq {"RefreshVote", "RefreshCertificate"} \X Votes
    /\ stored \in [Identities -> SUBSET Histories]
    /\ broadcast \subseteq Votes

\* History g comes after history h.
Extends(g, h) == h.root <= g.root /\ \A v \in h.votes : Covers(g, v)

\* The votes that the ops of a queue will send.
OpVotes(q) == {q[i].vote : i \in {i \in 1..Len(q) : q[i].kind \in {"PushVote", "RefreshVote"}}}

\* A queue saves histories in their order.
Ordered(q) ==
    \A i, j \in 1..Len(q) : i < j /\ q[i].kind = "PushVote" /\ q[j].kind = "PushVote"
        => Extends(q[j].saved, q[i].saved)

\* When a vote of a queue is sent, a history that covers it has been saved: one
\* of those in `before`, or one that comes earlier in the queue.
Backed(q, before) ==
    \A i \in 1..Len(q) : q[i].kind \in {"PushVote", "RefreshVote"} =>
        \/ \E h \in before : Covers(h, q[i].vote)
        \/ \E j \in 1..i : q[j].kind = "PushVote" /\ Covers(q[j].saved, q[i].vote)

OneFile == \A id \in Identities : \A g, h \in stored[id] : g = h

SpareBatch == identity # Staked => batch = <<>>

SavesOrdered ==
    /\ Ordered(bls) /\ Ordered(batch)
    /\ \A h \in stored[Staked], g \in Saves(bls) \union Saves(batch) : Extends(g, h)
    /\ \A h \in Saves(bls), g \in Saves(batch) : Extends(g, h)
    /\ identity = Staked =>
          \A h \in stored[Staked] \union Saves(bls) \union Saves(batch) : Extends(history, h)

\* What accounts for a vote that is sent: the file, or that it is exempt, put as a
\* history of its own.
Disk == stored[Staked] \union {History(unbacked, 0)}

SavesBacked ==
    /\ Backed(bls, Disk)
    /\ Backed(batch, Disk \union Saves(bls))
    /\ \A m \in refresh_queue : m[1] = "RefreshVote" => \E h \in Disk : Covers(h, m[2])

Durable == \A v \in broadcast : \E h \in Disk : Covers(h, v)

\* The votes of Staked that others may see, and those it may still repeat.
Alive ==
    LET histories == stored[Staked] \union Saves(bls) \union Saves(batch)
        queued    == {m[2] : m \in {n \in refresh_queue : n[1] = "RefreshVote"}}
        sent      == UNION {broadcast, OpVotes(bls), OpVotes(batch), queued}
    IN  UNION {sent \ unbacked, UNION {h.votes : h \in histories},
               {v \in history.votes : identity = Staked}}

AliveAgree ==
    /\ \A v, w \in Alive : ~ Equivocation(v, w)
    /\ identity = Staked => \A v \in Alive : Covers(history, v)

\* As long as no restored history has lapsed.
SoundInv ==
    /\ VotingTypeOK
    /\ OneFile
    /\ SpareBatch
    /\ SavesOrdered
    /\ SavesBacked
    /\ Durable
    /\ AliveAgree

VotingInv == VotingTypeOK /\ (lapses = {} => SoundInv)

-----------------------------------------------------------------------------
(* Histories and queues                                                      *)

\* A vote is for a slot, and of one of five types.
LEMMA VoteIs ==
    /\ \A v \in Votes : v.slot \in Nat
    /\ \A v \in Votes : v.type \in {"Notarize", "NotarizeFallback", "Finalize", "Skip", "SkipFallback"}
<1>1. \A s \in Slots : s \in Nat
  BY MaxSlotAssumption DEF Slots
<1>2. \A t, b : BlockVote(t, b).slot = b.slot /\ BlockVote(t, b).type = t
  BY DEF BlockVote
<1>3. \A t, x : SlotVote(t, x).slot = x /\ SlotVote(t, x).type = t
  BY DEF SlotVote
<1> QED
  BY <1>1, <1>2, <1>3, BlocksAssumption DEF Votes, BlockVoteTypes, SlotVoteTypes

\* Votes exclude each other mutually, and only in one slot; no vote excludes itself.
LEMMA EquivocationIs ==
    ASSUME NEW v \in Votes, NEW w \in Votes
    PROVE  /\ Equivocation(v, w) => v.slot = w.slot
           /\ Equivocation(v, w) => Equivocation(w, v)
           /\ ~ Equivocation(v, v)
<1>1. /\ v.type \in {"Notarize", "NotarizeFallback", "Finalize", "Skip", "SkipFallback"}
      /\ w.type \in {"Notarize", "NotarizeFallback", "Finalize", "Skip", "SkipFallback"}
  BY VoteIs
<1>2. w.type \in ConflictingTypes(v.type) <=> v.type \in ConflictingTypes(w.type)
  BY <1>1 DEF ConflictingTypes
<1>3. v.type \notin ConflictingTypes(v.type)
  BY <1>1 DEF ConflictingTypes
<1> QED
  BY <1>2, <1>3 DEF Equivocation, Conflicting

\* What a history has.
LEMMA HistoriesAre ==
    ASSUME NEW h \in Histories
    PROVE  /\ h.votes \subseteq Votes /\ h.root \in Nat
           /\ \A v \in h.votes : v.slot >= h.root
           /\ Extends(h, h)
<1>1. h.votes \subseteq Votes /\ h.root \in Nat /\ \A v \in h.votes : v.slot >= h.root
  BY DEF Histories
<1> QED
  BY <1>1 DEF Extends, Covers

\* A later history covers what an earlier one covers.
LEMMA CoversLater ==
    ASSUME NEW g \in Histories, NEW h \in Histories, Extends(g, h), NEW v \in Votes, Covers(h, v)
    PROVE  Covers(g, v)
<1>1. v.slot \in Nat /\ h.root \in Nat /\ g.root \in Nat
  BY VoteIs, HistoriesAre
<1> QED
  BY <1>1 DEF Extends, Covers

\* Histories are ordered transitively.
LEMMA ExtendsLater ==
    ASSUME NEW f \in Histories, NEW g \in Histories, NEW h \in Histories, Extends(g, f), Extends(h, g)
    PROVE  Extends(h, f)
<1>1. f.root \in Nat /\ h.root \in Nat /\ g.root \in Nat /\ f.votes \subseteq Votes
  BY HistoriesAre
<1>2. \A v \in f.votes : Covers(g, v)
  BY DEF Extends
<1>3. \A v \in f.votes : Covers(h, v)
  BY <1>1, <1>2, CoversLater
<1> QED
  BY <1>1, <1>3 DEF Extends

\* What an op carries.
LEMMA OpIs ==
    ASSUME NEW op \in Ops
    PROVE  op.kind \in Kinds /\ op.vote \in Votes /\ op.saved \in Histories /\ op.id = Staked
  BY DEF Ops

\* A queue's histories and votes are histories and votes.
LEMMA QueueIs ==
    ASSUME NEW q \in Seq(Ops)
    PROVE  Saves(q) \subseteq Histories /\ OpVotes(q) \subseteq Votes
<1>1. \A i \in 1..Len(q) : q[i] \in Ops
  OBVIOUS
<1> QED
  BY <1>1, OpIs DEF Saves, OpVotes

\* An op is put at the end of a queue.
LEMMA AppendOps ==
    ASSUME NEW q \in Seq(Ops), NEW op \in Ops
    PROVE  /\ Append(q, op) \in Seq(Ops)
           /\ Saves(Append(q, op)) = Saves(q) \union {g \in {op.saved} : op.kind = "PushVote"}
           /\ OpVotes(Append(q, op)) =
                OpVotes(q) \union {v \in {op.vote} : op.kind \in {"PushVote", "RefreshVote"}}
           /\ Ordered(q) /\ (op.kind = "PushVote" => \A h \in Saves(q) : Extends(op.saved, h))
                => Ordered(Append(q, op))
           /\ \A B : /\ Backed(q, B)
                     /\ op.kind \in {"PushVote", "RefreshVote"} =>
                          \/ \E h \in B \union Saves(q) : Covers(h, op.vote)
                          \/ op.kind = "PushVote" /\ Covers(op.saved, op.vote)
                     => Backed(Append(q, op), B)
<1> DEFINE a == Append(q, op)
           n == Len(q)
<1>1. /\ a \in Seq(Ops) /\ n \in Nat /\ Len(a) = n + 1 /\ a[n + 1] = op
      /\ \A i \in 1..n : a[i] = q[i]
  OBVIOUS
<1>2. \A i \in 1..(n + 1) : i \in 1..n \/ i = n + 1
  BY <1>1
<1>3. \A i \in 1..n : i \in 1..(n + 1) /\ \A j \in 1..i : j \in 1..n
  BY <1>1
<1>4. n + 1 \in 1..(n + 1) /\ \A i \in 1..n : i < n + 1 /\ i \in 1..(n + 1)
  BY <1>1
<1>5. \A i \in 1..n : ~ (n + 1 < i)
  BY <1>1
<1>6. /\ Saves(a) = {a[i].saved : i \in {i \in 1..(n + 1) : a[i].kind = "PushVote"}}
      /\ Saves(q) = {q[i].saved : i \in {i \in 1..n : q[i].kind = "PushVote"}}
      /\ OpVotes(a) = {a[i].vote : i \in {i \in 1..(n + 1) : a[i].kind \in {"PushVote", "RefreshVote"}}}
      /\ OpVotes(q) = {q[i].vote : i \in {i \in 1..n : q[i].kind \in {"PushVote", "RefreshVote"}}}
  BY <1>1 DEF Saves, OpVotes
<1>7. /\ Ordered(a) <=> \A i, j \in 1..(n + 1) : i < j /\ a[i].kind = "PushVote" /\ a[j].kind = "PushVote"
                            => Extends(a[j].saved, a[i].saved)
      /\ Ordered(q) <=> \A i, j \in 1..n : i < j /\ q[i].kind = "PushVote" /\ q[j].kind = "PushVote"
                            => Extends(q[j].saved, q[i].saved)
  BY <1>1 DEF Ordered
<1>8. \A B : 
      /\ Backed(a, B) <=> \A i \in 1..(n + 1) : a[i].kind \in {"PushVote", "RefreshVote"} =>
            \/ \E h \in B : Covers(h, a[i].vote)
            \/ \E j \in 1..i : a[j].kind = "PushVote" /\ Covers(a[j].saved, a[i].vote)
      /\ Backed(q, B) <=> \A i \in 1..n : q[i].kind \in {"PushVote", "RefreshVote"} =>
            \/ \E h \in B : Covers(h, q[i].vote)
            \/ \E j \in 1..i : q[j].kind = "PushVote" /\ Covers(q[j].saved, q[i].vote)
  BY <1>1 DEF Backed
<1> HIDE DEF a, n
<1>9. Saves(a) = Saves(q) \union {g \in {op.saved} : op.kind = "PushVote"}
  <2>1. ASSUME NEW g \in Saves(a) PROVE g \in Saves(q) \union {f \in {op.saved} : op.kind = "PushVote"}
    <3>1. PICK i \in 1..(n + 1) : a[i].kind = "PushVote" /\ g = a[i].saved
      BY <1>6
    <3> QED
      BY <1>1, <1>2, <1>6, <3>1
  <2>2. ASSUME NEW g \in Saves(q) PROVE g \in Saves(a)
    <3>1. PICK i \in 1..n : q[i].kind = "PushVote" /\ g = q[i].saved
      BY <1>6
    <3> QED
      BY <1>1, <1>3, <1>6, <3>1
  <2>3. op.kind = "PushVote" => op.saved \in Saves(a)
    BY <1>1, <1>4, <1>6
  <2> QED
    BY <2>1, <2>2, <2>3
<1>10. OpVotes(a) = OpVotes(q) \union {v \in {op.vote} : op.kind \in {"PushVote", "RefreshVote"}}
  <2>1. ASSUME NEW v \in OpVotes(a)
        PROVE  v \in OpVotes(q) \union {w \in {op.vote} : op.kind \in {"PushVote", "RefreshVote"}}
    <3>1. PICK i \in 1..(n + 1) : a[i].kind \in {"PushVote", "RefreshVote"} /\ v = a[i].vote
      BY <1>6
    <3> QED
      BY <1>1, <1>2, <1>6, <3>1
  <2>2. ASSUME NEW v \in OpVotes(q) PROVE v \in OpVotes(a)
    <3>1. PICK i \in 1..n : q[i].kind \in {"PushVote", "RefreshVote"} /\ v = q[i].vote
      BY <1>6
    <3> QED
      BY <1>1, <1>3, <1>6, <3>1
  <2>3. op.kind \in {"PushVote", "RefreshVote"} => op.vote \in OpVotes(a)
    BY <1>1, <1>4, <1>6
  <2> QED
    BY <2>1, <2>2, <2>3
<1>11. ASSUME Ordered(q), op.kind = "PushVote" => \A h \in Saves(q) : Extends(op.saved, h)
       PROVE  Ordered(a)
  <2> SUFFICES ASSUME NEW i \in 1..(n + 1), NEW j \in 1..(n + 1), i < j,
                      a[i].kind = "PushVote", a[j].kind = "PushVote"
               PROVE  Extends(a[j].saved, a[i].saved)
    BY <1>7
  <2>1. i \in 1..n
    BY <1>1, <1>2, <1>4
  <2>2. CASE j \in 1..n
    BY <1>1, <1>7, <1>11, <2>1, <2>2
  <2>3. CASE j = n + 1
    <3>1. a[i].saved \in Saves(q)
      BY <1>1, <1>6, <2>1
    <3> QED
      BY <1>1, <1>11, <2>3, <3>1
  <2> QED
    BY <1>2, <2>2, <2>3
<1>12. ASSUME NEW B, Backed(q, B),
              op.kind \in {"PushVote", "RefreshVote"} =>
                          \/ \E h \in B \union Saves(q) : Covers(h, op.vote)
                          \/ op.kind = "PushVote" /\ Covers(op.saved, op.vote)
       PROVE  Backed(a, B)
  <2> SUFFICES ASSUME NEW i \in 1..(n + 1), a[i].kind \in {"PushVote", "RefreshVote"},
                      ~ \E h \in B : Covers(h, a[i].vote)
               PROVE  \E j \in 1..i : a[j].kind = "PushVote" /\ Covers(a[j].saved, a[i].vote)
    BY <1>8
  <2>1. CASE i \in 1..n
    <3>1. PICK j \in 1..i : q[j].kind = "PushVote" /\ Covers(q[j].saved, q[i].vote)
      BY <1>1, <1>8, <1>12, <2>1
    <3> QED
      BY <1>1, <1>3, <2>1, <3>1
  <2>2. CASE i = n + 1
    <3>1. CASE op.kind = "PushVote" /\ Covers(op.saved, op.vote)
      BY <1>1, <1>4, <2>2, <3>1
    <3>2. CASE \E h \in Saves(q) : Covers(h, op.vote)
      <4>1. PICK j \in 1..n : q[j].kind = "PushVote" /\ Covers(q[j].saved, op.vote)
        BY <1>6, <3>2
      <4> QED
        BY <1>1, <1>4, <2>2, <4>1
    <3> QED
      BY <1>1, <1>12, <2>2, <3>1, <3>2
  <2> QED
    BY <1>2, <2>1, <2>2
<1> QED
  BY <1>1, <1>9, <1>10, <1>11, <1>12 DEF a

\* The first op of a queue is taken.
LEMMA TailOps ==
    ASSUME NEW q \in Seq(Ops), q # <<>>
    PROVE  /\ Head(q) \in Ops /\ Tail(q) \in Seq(Ops)
           /\ Saves(q) = Saves(Tail(q)) \union {g \in {Head(q).saved} : Head(q).kind = "PushVote"}
           /\ OpVotes(q) = OpVotes(Tail(q))
                \union {v \in {Head(q).vote} : Head(q).kind \in {"PushVote", "RefreshVote"}}
           /\ Ordered(q) => /\ Ordered(Tail(q))
                            /\ Head(q).kind = "PushVote" =>
                                  \A g \in Saves(Tail(q)) : Extends(g, Head(q).saved)
           /\ \A B : Backed(q, B) =>
                /\ Backed(Tail(q), B \union {g \in {Head(q).saved} : Head(q).kind = "PushVote"})
                /\ Head(q).kind \in {"PushVote", "RefreshVote"} =>
                     \E h \in B \union {g \in {Head(q).saved} : Head(q).kind = "PushVote"} :
                        Covers(h, Head(q).vote)
<1> DEFINE r == Tail(q)
           op == Head(q)
           n == Len(r)
<1>1. /\ op \in Ops /\ r \in Seq(Ops) /\ n \in Nat /\ Len(q) = n + 1 /\ q[1] = op
      /\ \A i \in 1..n : r[i] = q[i + 1]
  OBVIOUS
<1>2. \A i \in 1..(n + 1) : i = 1 \/ \E k \in 1..n : i = k + 1
  <2> HIDE DEF n
  <2>1. \A i \in 1..(n + 1) : i = 1 \/ (i - 1 \in 1..n /\ i = (i - 1) + 1)
    BY <1>1
  <2> QED
    BY <2>1
<1> HIDE DEF n
<1>3. \A i \in 1..n : i + 1 \in 1..(n + 1) /\ 1 < i + 1
  BY <1>1
<1>4. 1 \in 1..(n + 1) /\ \A j \in 1..1 : j = 1
  BY <1>1
<1>5. \A i, j \in 1..n : i < j <=> i + 1 < j + 1
  BY <1>1
<1>6. /\ Saves(r) = {r[i].saved : i \in {i \in 1..n : r[i].kind = "PushVote"}}
      /\ Saves(q) = {q[i].saved : i \in {i \in 1..(n + 1) : q[i].kind = "PushVote"}}
      /\ OpVotes(r) = {r[i].vote : i \in {i \in 1..n : r[i].kind \in {"PushVote", "RefreshVote"}}}
      /\ OpVotes(q) = {q[i].vote : i \in {i \in 1..(n + 1) : q[i].kind \in {"PushVote", "RefreshVote"}}}
  BY <1>1 DEF Saves, OpVotes, n
<1>7. /\ Ordered(r) <=> \A i, j \in 1..n : i < j /\ r[i].kind = "PushVote" /\ r[j].kind = "PushVote"
                            => Extends(r[j].saved, r[i].saved)
      /\ Ordered(q) <=> \A i, j \in 1..(n + 1) : i < j /\ q[i].kind = "PushVote" /\ q[j].kind = "PushVote"
                            => Extends(q[j].saved, q[i].saved)
  BY <1>1 DEF Ordered, n
<1>8. \A B : 
      /\ Backed(r, B) <=> \A i \in 1..n : r[i].kind \in {"PushVote", "RefreshVote"} =>
            \/ \E h \in B : Covers(h, r[i].vote)
            \/ \E j \in 1..i : r[j].kind = "PushVote" /\ Covers(r[j].saved, r[i].vote)
      /\ Backed(q, B) <=> \A i \in 1..(n + 1) : q[i].kind \in {"PushVote", "RefreshVote"} =>
            \/ \E h \in B : Covers(h, q[i].vote)
            \/ \E j \in 1..i : q[j].kind = "PushVote" /\ Covers(q[j].saved, q[i].vote)
  BY <1>1 DEF Backed, n
<1> HIDE DEF r, op
<1>9. Saves(q) = Saves(r) \union {g \in {op.saved} : op.kind = "PushVote"}
  <2>1. ASSUME NEW g \in Saves(q) PROVE g \in Saves(r) \union {f \in {op.saved} : op.kind = "PushVote"}
    <3>1. PICK i \in 1..(n + 1) : q[i].kind = "PushVote" /\ g = q[i].saved
      BY <1>6
    <3>2. CASE i = 1
      BY <1>1, <3>1, <3>2
    <3>3. CASE i # 1
      <4>1. PICK k \in 1..n : i = k + 1
        BY <1>2, <3>3
      <4> QED
        BY <1>1, <1>6, <3>1, <4>1
    <3> QED
      BY <3>2, <3>3
  <2>2. ASSUME NEW g \in Saves(r) PROVE g \in Saves(q)
    <3>1. PICK i \in 1..n : r[i].kind = "PushVote" /\ g = r[i].saved
      BY <1>6
    <3>2. q[i + 1].kind = "PushVote" /\ g = q[i + 1].saved /\ i + 1 \in 1..(n + 1)
      BY <1>1, <1>3, <3>1
    <3> QED
      BY <1>6, <3>2
  <2>3. op.kind = "PushVote" => op.saved \in Saves(q)
    BY <1>1, <1>4, <1>6
  <2> QED
    BY <2>1, <2>2, <2>3
<1>10. OpVotes(q) = OpVotes(r) \union {v \in {op.vote} : op.kind \in {"PushVote", "RefreshVote"}}
  <2>1. ASSUME NEW v \in OpVotes(q)
        PROVE  v \in OpVotes(r) \union {w \in {op.vote} : op.kind \in {"PushVote", "RefreshVote"}}
    <3>1. PICK i \in 1..(n + 1) : q[i].kind \in {"PushVote", "RefreshVote"} /\ v = q[i].vote
      BY <1>6
    <3>2. CASE i = 1
      BY <1>1, <3>1, <3>2
    <3>3. CASE i # 1
      <4>1. PICK k \in 1..n : i = k + 1
        BY <1>2, <3>3
      <4> QED
        BY <1>1, <1>6, <3>1, <4>1
    <3> QED
      BY <3>2, <3>3
  <2>2. ASSUME NEW v \in OpVotes(r) PROVE v \in OpVotes(q)
    <3>1. PICK i \in 1..n : r[i].kind \in {"PushVote", "RefreshVote"} /\ v = r[i].vote
      BY <1>6
    <3>2. q[i + 1].kind \in {"PushVote", "RefreshVote"} /\ v = q[i + 1].vote /\ i + 1 \in 1..(n + 1)
      BY <1>1, <1>3, <3>1
    <3> QED
      BY <1>6, <3>2
  <2>3. op.kind \in {"PushVote", "RefreshVote"} => op.vote \in OpVotes(q)
    BY <1>1, <1>4, <1>6
  <2> QED
    BY <2>1, <2>2, <2>3
<1>11. ASSUME Ordered(q)
       PROVE  Ordered(r) /\ (op.kind = "PushVote" => \A g \in Saves(r) : Extends(g, op.saved))
  <2>1. ASSUME NEW i \in 1..n, NEW j \in 1..n, i < j, r[i].kind = "PushVote", r[j].kind = "PushVote"
        PROVE  Extends(r[j].saved, r[i].saved)
    <3>1. /\ i + 1 \in 1..(n + 1) /\ j + 1 \in 1..(n + 1) /\ i + 1 < j + 1
          /\ r[i] = q[i + 1] /\ r[j] = q[j + 1]
      BY <1>1, <1>3, <1>5, <2>1
    <3>2. q[i + 1].kind = "PushVote" /\ q[j + 1].kind = "PushVote"
      BY <2>1, <3>1
    <3> QED
      BY <1>7, <1>11, <3>1, <3>2
  <2>2. ASSUME op.kind = "PushVote", NEW g \in Saves(r) PROVE Extends(g, op.saved)
    <3>1. PICK i \in 1..n : r[i].kind = "PushVote" /\ g = r[i].saved
      BY <1>6
    <3>2. /\ i + 1 \in 1..(n + 1) /\ 1 \in 1..(n + 1) /\ 1 < i + 1 /\ r[i] = q[i + 1] /\ op = q[1]
      BY <1>1, <1>3, <1>4
    <3>3. q[1].kind = "PushVote" /\ q[i + 1].kind = "PushVote"
      BY <2>2, <3>1, <3>2
    <3> QED
      BY <1>7, <1>11, <3>1, <3>2, <3>3
  <2> QED
    BY <1>7, <2>1, <2>2
<1>12. ASSUME NEW B, Backed(q, B)
       PROVE  /\ Backed(r, B \union {g \in {op.saved} : op.kind = "PushVote"})
              /\ op.kind \in {"PushVote", "RefreshVote"} =>
                   \E h \in B \union {g \in {op.saved} : op.kind = "PushVote"} : Covers(h, op.vote)
  <2>1. ASSUME NEW i \in 1..n, r[i].kind \in {"PushVote", "RefreshVote"},
               ~ \E h \in B \union {g \in {op.saved} : op.kind = "PushVote"} : Covers(h, r[i].vote)
        PROVE  \E j \in 1..i : r[j].kind = "PushVote" /\ Covers(r[j].saved, r[i].vote)
    <3>1. i + 1 \in 1..(n + 1) /\ r[i] = q[i + 1]
      BY <1>1, <1>3
    <3>2. PICK j \in 1..(i + 1) : q[j].kind = "PushVote" /\ Covers(q[j].saved, r[i].vote)
      BY <1>8, <1>12, <2>1, <3>1
    <3>3. j # 1
      BY <1>1, <2>1, <3>2
    <3>4. j \in 1..(n + 1)
      BY <1>1, <3>2
    <3>5. PICK k \in 1..n : j = k + 1
      BY <1>2, <3>3, <3>4
    <3>6. k \in 1..i /\ r[k] = q[j]
      BY <1>1, <3>2, <3>5
    <3> QED
      BY <3>2, <3>6
  <2>2. ASSUME op.kind \in {"PushVote", "RefreshVote"}
        PROVE  \E h \in B \union {g \in {op.saved} : op.kind = "PushVote"} : Covers(h, op.vote)
    <3>1. \/ \E h \in B : Covers(h, q[1].vote)
          \/ \E j \in 1..1 : q[j].kind = "PushVote" /\ Covers(q[j].saved, q[1].vote)
      BY <1>1, <1>4, <1>8, <1>12, <2>2
    <3> QED
      BY <1>1, <1>4, <3>1
  <2> QED
    BY <1>8, <2>1, <2>2
<1> QED
  BY <1>1, <1>9, <1>10, <1>11, <1>12 DEF r, op

\* What backs a queue may be exchanged for later histories.
LEMMA BackedBy ==
    ASSUME NEW q \in Seq(Ops), NEW B, NEW C, Backed(q, B),
           \A v \in Votes : (\E h \in B : Covers(h, v)) => \E h \in C : Covers(h, v)
    PROVE  Backed(q, C)
<1>1. \A i \in 1..Len(q) : q[i] \in Ops /\ q[i].vote \in Votes
  BY OpIs
<1> QED
  BY <1>1 DEF Backed

\* An empty queue saves and sends nothing.
LEMMA EmptyOps ==
    /\ Saves(<<>>) = {} /\ OpVotes(<<>>) = {} /\ Ordered(<<>>) /\ \A B : Backed(<<>>, B)
  BY DEF Saves, OpVotes, Ordered, Backed

-----------------------------------------------------------------------------
(* The steps                                                                 *)

\* Which votes are in sight, now and after a step.
LEMMA AliveIs ==
    /\ \A v : v \in Alive <=>
          \/ /\ v \notin unbacked
             /\ \/ v \in broadcast
                \/ \E m \in refresh_queue : m[1] = "RefreshVote" /\ v = m[2]
                \/ v \in OpVotes(bls) \/ v \in OpVotes(batch)
          \/ \E h \in stored[Staked] \union Saves(bls) \union Saves(batch) : v \in h.votes
          \/ v \in history.votes /\ identity = Staked
    /\ \A v : v \in Alive' <=>
          \/ /\ v \notin unbacked'
             /\ \/ v \in broadcast'
                \/ \E m \in refresh_queue' : m[1] = "RefreshVote" /\ v = m[2]
                \/ v \in OpVotes(bls') \/ v \in OpVotes(batch')
          \/ \E h \in stored'[Staked] \union Saves(bls') \union Saves(batch') : v \in h.votes
          \/ v \in history'.votes /\ identity' = Staked
<1>1. ASSUME NEW v
      PROVE  v \in Alive <=>
          \/ /\ v \notin unbacked
             /\ \/ v \in broadcast
                \/ v \in {m[2] : m \in {n \in refresh_queue : n[1] = "RefreshVote"}}
                \/ v \in OpVotes(bls) \/ v \in OpVotes(batch)
          \/ v \in UNION {h.votes : h \in stored[Staked] \union Saves(bls) \union Saves(batch)}
          \/ v \in history.votes /\ identity = Staked
  BY DEF Alive
<1>2. ASSUME NEW v
      PROVE  v \in Alive' <=>
          \/ /\ v \notin unbacked'
             /\ \/ v \in broadcast'
                \/ v \in {m[2] : m \in {n \in refresh_queue' : n[1] = "RefreshVote"}}
                \/ v \in OpVotes(bls') \/ v \in OpVotes(batch')
          \/ v \in UNION {h.votes : h \in stored'[Staked] \union Saves(bls') \union Saves(batch')}
          \/ v \in history'.votes /\ identity' = Staked
  BY DEF Alive
<1>3. \A v, Q : v \in {m[2] : m \in {n \in Q : n[1] = "RefreshVote"}} <=>
                  \E m \in Q : m[1] = "RefreshVote" /\ v = m[2]
  OBVIOUS
<1>4. \A v, H : v \in UNION {h.votes : h \in H} <=> \E h \in H : v \in h.votes
  OBVIOUS
<1> QED
  BY <1>1, <1>2, <1>3, <1>4

\* What the invariant says of the disk and the queues.
LEMMA InvTypes ==
    ASSUME SoundInv
    PROVE  /\ Staked \in Identities /\ identity \in Identities
           /\ batch \in Seq(Ops) /\ bls \in Seq(Ops) /\ history \in Histories
           /\ stored[Staked] \subseteq Histories /\ broadcast \subseteq Votes
           /\ Saves(bls) \subseteq Histories /\ Saves(batch) \subseteq Histories
           /\ OpVotes(bls) \subseteq Votes /\ OpVotes(batch) \subseteq Votes
           /\ \A m \in refresh_queue : m[2] \in Votes
           /\ Alive \subseteq Votes
<1>1. Staked \in Identities
  BY DEF Identities
<1>2. /\ batch \in Seq(Ops) /\ bls \in Seq(Ops) /\ history \in Histories /\ identity \in Identities
      /\ stored[Staked] \subseteq Histories /\ broadcast \subseteq Votes
      /\ \A m \in refresh_queue : m[2] \in Votes
  BY <1>1 DEF SoundInv, VotingTypeOK
<1>3. /\ Saves(bls) \subseteq Histories /\ Saves(batch) \subseteq Histories
      /\ OpVotes(bls) \subseteq Votes /\ OpVotes(batch) \subseteq Votes
  BY <1>2, QueueIs
<1>4. \A h \in Histories : h.votes \subseteq Votes
  BY HistoriesAre
<1>5. Alive \subseteq Votes
  BY <1>2, <1>3, <1>4, AliveIs
<1> QED
  BY <1>1, <1>2, <1>3, <1>5

\* The votes in sight stay consistent when none is added and the history of the
\* staked identity covers them.
LEMMA AliveShrinks ==
    ASSUME SoundInv, Alive' \subseteq Alive,
           identity' = Staked => \A v \in Alive' : Covers(history', v)
    PROVE  AliveAgree'
  BY DEF SoundInv, AliveAgree

\* A step that touches neither histories nor votes nor the disk.
LEMMA QuietKeeps ==
    ASSUME SoundInv, UNCHANGED <<identity, history, batch, bls, stored, broadcast, unbacked>>,
           refresh_queue' \subseteq refresh_queue
    PROVE  SoundInv'
<1>1. VotingTypeOK' /\ OneFile' /\ SpareBatch' /\ Durable'
  BY DEF SoundInv, VotingTypeOK, OneFile, SpareBatch, Durable, Disk
<1>2. SavesOrdered'
  BY DEF SoundInv, SavesOrdered
<1>3. SavesBacked'
  BY DEF SoundInv, SavesBacked, Disk
<1>4. Alive' \subseteq Alive
  BY DEF Alive
<1>5. AliveAgree'
  BY <1>4, AliveShrinks DEF SoundInv, AliveAgree
<1> QED
  BY <1>1, <1>2, <1>3, <1>5 DEF SoundInv

\* The pool puts a certificate into the channel.
LEMMA CertificateKeeps ==
    ASSUME SoundInv, NEW op \in Ops, op.kind \in {"PushCertificate", "RefreshCertificate"},
           identity = Staked, bls' = Append(bls, op),
           UNCHANGED <<identity, history, batch, refresh_queue, stored, broadcast, unbacked>>
    PROVE  SoundInv'
<1>0. bls \in Seq(Ops)
  BY InvTypes
<1>1. Saves(bls') = Saves(bls) /\ OpVotes(bls') = OpVotes(bls) /\ bls' \in Seq(Ops)
  <2>1. /\ bls' \in Seq(Ops)
        /\ Saves(bls') = Saves(bls) \union {g \in {op.saved} : op.kind = "PushVote"}
        /\ OpVotes(bls') = OpVotes(bls) \union {v \in {op.vote} : op.kind \in {"PushVote", "RefreshVote"}}
    BY <1>0, AppendOps
  <2> QED
    BY <2>1
<1>2. Ordered(bls') /\ Backed(bls', Disk)
  <2>1. Ordered(bls) /\ Backed(bls, Disk)
    BY DEF SoundInv, SavesOrdered, SavesBacked, Disk
  <2> QED
    BY <1>0, <2>1, AppendOps
<1>3. VotingTypeOK' /\ OneFile' /\ SpareBatch' /\ Durable'
  BY <1>1 DEF SoundInv, VotingTypeOK, OneFile, SpareBatch, Durable, Disk
<1>4. SavesOrdered'
  BY <1>1, <1>2 DEF SoundInv, SavesOrdered
<1>5. SavesBacked'
  BY <1>1, <1>2 DEF SoundInv, SavesBacked, Disk
<1>6. Alive' \subseteq Alive
  BY <1>1 DEF Alive
<1>7. AliveAgree'
  BY <1>6, AliveShrinks DEF SoundInv, AliveAgree
<1> QED
  BY <1>3, <1>4, <1>5, <1>7 DEF SoundInv

\* An op that the event handler adds to its batch.
LEMMA BatchGrows ==
    ASSUME SoundInv, identity = Staked, NEW op \in Ops, batch' = Append(batch, op),
           UNCHANGED <<identity, bls, refresh_queue, stored, broadcast>>,
           history' \in Histories, Extends(history', history), unbacked \subseteq unbacked',
           \/ /\ op.kind = "RefreshVote" /\ history' = history /\ op.vote \in history.votes
              /\ \/ op.vote \in unbacked'
                 \/ \E h \in stored[Staked] \union Saves(bls) \union Saves(batch) : Covers(h, op.vote)
           \/ /\ op.kind = "PushVote" /\ op.saved = history' /\ op.vote \in history'.votes
              /\ history'.votes = history.votes \union {op.vote}
              /\ \A w \in Alive : ~ Equivocation(op.vote, w)
    PROVE  SoundInv'
<1>0. /\ batch \in Seq(Ops) /\ bls \in Seq(Ops) /\ history \in Histories
      /\ stored[Staked] \subseteq Histories /\ Saves(bls) \subseteq Histories
      /\ Saves(batch) \subseteq Histories /\ Alive \subseteq Votes
  BY InvTypes
<1>1. /\ batch' \in Seq(Ops)
      /\ Saves(batch') = Saves(batch) \union {g \in {op.saved} : op.kind = "PushVote"}
      /\ OpVotes(batch') = OpVotes(batch) \union {op.vote}
  BY <1>0, AppendOps
<1>2. op.vote \in Votes /\ op.saved \in Histories
  BY OpIs
<1>3. SavesOrdered /\ SavesBacked /\ AliveAgree
  BY DEF SoundInv
<1>4. \A h \in stored[Staked] \union Saves(bls) \union Saves(batch) : Extends(history', h)
  <2>1. \A h \in stored[Staked] \union Saves(bls) \union Saves(batch) : Extends(history, h) /\ h \in Histories
    BY <1>0, <1>3 DEF SavesOrdered
  <2> QED
    BY <1>0, <2>1, ExtendsLater
<1>5. SavesOrdered'
  <2>1. Ordered(batch')
    <3>1. op.kind = "PushVote" => \A h \in Saves(batch) : Extends(op.saved, h)
      BY <1>4
    <3> QED
      BY <1>0, <1>3, <3>1, AppendOps DEF SavesOrdered
  <2>2. \A g \in Saves(batch') : g \in Saves(batch) \/ g = history'
    BY <1>1
  <2>3. \A h \in stored[Staked], g \in Saves(bls) \union Saves(batch') : Extends(g, h)
    BY <1>3, <1>4, <2>2 DEF SavesOrdered
  <2>4. \A h \in Saves(bls), g \in Saves(batch') : Extends(g, h)
    BY <1>3, <1>4, <2>2 DEF SavesOrdered
  <2>5. Extends(history', history')
    BY HistoriesAre
  <2>6. \A h \in stored[Staked] \union Saves(bls) \union Saves(batch') : Extends(history', h)
    BY <1>4, <2>2, <2>5
  <2> QED
    BY <1>3, <2>1, <2>3, <2>4, <2>6 DEF SavesOrdered
<1>6. SavesBacked' /\ Durable'
  <2>1. \A v \in Votes : (\E h \in Disk : Covers(h, v)) => \E h \in Disk' : Covers(h, v)
    <3>1. ASSUME NEW v, Covers(History(unbacked, 0), v) PROVE Covers(History(unbacked', 0), v)
      BY <3>1 DEF Covers, History
    <3> QED
      BY <3>1 DEF Disk
  <2>2. Backed(bls, Disk')
    BY <1>0, <1>3, <2>1, BackedBy DEF SavesBacked
  <2>3. Backed(batch, Disk' \union Saves(bls))
    <3>1. \A v \in Votes : (\E h \in Disk \union Saves(bls) : Covers(h, v))
                             => \E h \in Disk' \union Saves(bls) : Covers(h, v)
      BY <2>1
    <3>2. Backed(batch, Disk \union Saves(bls))
      BY <1>3 DEF SavesBacked
    <3> QED
      BY <1>0, <3>1, <3>2, BackedBy
  <2>4. op.kind = "RefreshVote" =>
          \E h \in (Disk' \union Saves(bls)) \union Saves(batch) : Covers(h, op.vote)
    <3>1. op.vote \in unbacked' => Covers(History(unbacked', 0), op.vote)
      BY DEF Covers, History
    <3>2. History(unbacked', 0) \in Disk' /\ stored[Staked] \subseteq Disk'
      BY DEF Disk
    <3> QED
      BY <3>1, <3>2
  <2>5. op.kind = "PushVote" => Covers(op.saved, op.vote)
    BY DEF Covers
  <2>6. op.kind = "PushVote" \/ op.kind = "RefreshVote"
    OBVIOUS
  <2>7. Backed(batch', Disk' \union Saves(bls))
    BY <1>0, <2>3, <2>4, <2>5, <2>6, AppendOps
  <2>8. \A m \in refresh_queue' : m[1] = "RefreshVote" => \E h \in Disk' : Covers(h, m[2])
    <3>1. \A m \in refresh_queue : m[2] \in Votes
      BY InvTypes
    <3> QED
      BY <1>3, <2>1, <3>1 DEF SavesBacked
  <2>9. SavesBacked'
    BY <2>2, <2>7, <2>8 DEF SavesBacked
  <2>10. broadcast \subseteq Votes /\ Durable
    BY InvTypes DEF SoundInv
  <2>11. Durable'
    BY <2>1, <2>10 DEF Durable
  <2> QED
    BY <2>9, <2>11
<1>7. Alive' \subseteq Alive \union {op.vote}
  <2>1. \A g \in Saves(batch') : g \in Saves(batch) \/ g.votes \subseteq history.votes \union {op.vote}
    BY <1>1
  <2>2. history'.votes \subseteq history.votes \union {op.vote}
    OBVIOUS
  <2> QED
    BY <1>1, <2>1, <2>2, AliveIs
<1>8. AliveAgree'
  <2>1. \A w \in Alive : ~ Equivocation(op.vote, w) /\ ~ Equivocation(w, op.vote)
    <3>1. \A w \in Alive : ~ Equivocation(op.vote, w)
      <4>1. CASE op.kind = "RefreshVote"
        <5>1. op.vote \in Alive
          BY <4>1, AliveIs
        <5> QED
          BY <1>3, <5>1 DEF AliveAgree
      <4> QED
        BY <4>1
    <3> QED
      BY <1>0, <1>2, <3>1, EquivocationIs
  <2>2. ~ Equivocation(op.vote, op.vote)
    BY <1>2, EquivocationIs
  <2>3. \A v, w \in Alive' : ~ Equivocation(v, w)
    BY <1>3, <1>7, <2>1, <2>2 DEF AliveAgree
  <2>4. \A v \in Alive : Covers(history', v)
    <3>1. \A v \in Alive : Covers(history, v) /\ v \in Votes
      BY <1>0, <1>3 DEF AliveAgree
    <3> QED
      BY <1>0, <3>1, CoversLater
  <2>5. Covers(history', op.vote)
    BY DEF Covers
  <2> QED
    BY <1>7, <2>3, <2>4, <2>5 DEF AliveAgree
<1>9. VotingTypeOK' /\ OneFile' /\ SpareBatch'
  BY <1>1 DEF SoundInv, VotingTypeOK, OneFile, SpareBatch
<1> QED
  BY <1>5, <1>6, <1>8, <1>9 DEF SoundInv

\* insert_vote_and_create_bls_message: the staked identity signs if it can, a spare
\* never does.
LEMMA CastKeeps ==
    ASSUME SoundInv, NEW vote \in Candidates, Cast(vote)
    PROVE  SoundInv'
<1> DEFINE h == [history EXCEPT !.votes = @ \union {vote}]
<1>0. vote \in Votes /\ history \in Histories /\ batch \in Seq(Ops) /\ Alive \subseteq Votes
  BY InvTypes, VotingAssumption
<1>1. /\ Fits(history, vote) /\ history' = h
      /\ UNCHANGED <<identity, bls, refresh_queue, stored, broadcast, unbacked>>
  BY DEF Cast, serviceVars
<1>2. vote.slot \in Nat /\ history.root \in Nat /\ history.votes \subseteq Votes /\ vote.slot > history.root
  BY <1>0, <1>1, VoteIs, HistoriesAre DEF Fits
<1>3. h \in Histories /\ h.votes = history.votes \union {vote} /\ h.root = history.root
  <2>1. history \in [votes : SUBSET Votes, root : Nat] /\ \A v \in history.votes : v.slot >= history.root
    BY <1>0 DEF Histories
  <2>2. /\ h \in [votes : SUBSET Votes, root : Nat]
        /\ h.votes = history.votes \union {vote} /\ h.root = history.root
    BY <1>0, <2>1
  <2> HIDE DEF h
  <2>3. \A v \in h.votes : v.slot >= h.root
    BY <1>2, <2>1, <2>2
  <2> QED
    BY <2>2, <2>3 DEF Histories
<1> HIDE DEF h
<1>4. Extends(h, history)
  BY <1>2, <1>3 DEF Extends, Covers
<1>5. ASSUME identity = Staked, NEW w \in Alive PROVE ~ Equivocation(vote, w)
  <2>1. Covers(history, w) /\ w \in Votes /\ w.slot \in Nat
    BY <1>0, <1>5, VoteIs DEF SoundInv, AliveAgree
  <2>2. CASE w \in history.votes
    BY <1>1, <2>2 DEF Fits
  <2>3. CASE w.slot < history.root
    <3>1. vote.slot # w.slot
      BY <1>2, <2>1, <2>3
    <3> QED
      BY <1>0, <2>1, <3>1, EquivocationIs
  <2> QED
    BY <2>1, <2>2, <2>3 DEF Covers
<1>6. CASE identity = Staked /\ batch' = Append(batch, Op("PushVote", vote, h))
  <2> DEFINE op == Op("PushVote", vote, h)
  <2>1. op \in Ops /\ op.kind = "PushVote" /\ op.vote = vote /\ op.saved = h
    BY <1>0, <1>3, <1>6 DEF Op, Ops, Kinds
  <2> HIDE DEF op
  <2>2. batch' = Append(batch, op)
    BY <1>6 DEF op
  <2> QED
    BY <1>1, <1>3, <1>4, <1>5, <1>6, <2>1, <2>2, BatchGrows
<1>7. CASE batch' = batch
  <2>1. VotingTypeOK' /\ OneFile' /\ SpareBatch' /\ Durable'
    BY <1>1, <1>3, <1>7 DEF SoundInv, VotingTypeOK, OneFile, SpareBatch, Durable, Disk
  <2>2. SavesBacked'
    BY <1>1, <1>7 DEF SoundInv, SavesBacked, Disk
  <2>3. SavesOrdered'
    <3>1. identity = Staked =>
            \A g \in stored[Staked] \union Saves(bls) \union Saves(batch) : Extends(h, g)
      <4>1. identity = Staked =>
              \A g \in stored[Staked] \union Saves(bls) \union Saves(batch) :
                 Extends(history, g) /\ g \in Histories
        BY InvTypes DEF SoundInv, SavesOrdered
      <4> QED
        BY <1>0, <1>3, <1>4, <4>1, ExtendsLater
    <3> QED
      BY <1>1, <1>7, <3>1 DEF SoundInv, SavesOrdered
  <2>4. Alive' \subseteq Alive \union {v \in {vote} : identity = Staked}
    BY <1>1, <1>3, <1>7, AliveIs
  <2>5. AliveAgree'
    <3>1. CASE identity = Staked
      <4>1. \A w \in Alive : ~ Equivocation(vote, w) /\ ~ Equivocation(w, vote)
        BY <1>0, <1>5, <3>1, EquivocationIs
      <4>2. ~ Equivocation(vote, vote)
        BY <1>0, EquivocationIs
      <4>3. \A v, w \in Alive' : ~ Equivocation(v, w)
        BY <2>4, <4>1, <4>2 DEF SoundInv, AliveAgree
      <4>4. \A v \in Alive : Covers(h, v)
        <5>1. \A v \in Alive : Covers(history, v) /\ v \in Votes
          BY <1>0, <3>1 DEF SoundInv, AliveAgree
        <5> QED
          BY <1>0, <1>3, <1>4, <5>1, CoversLater
      <4>5. Covers(h, vote)
        BY <1>3 DEF Covers
      <4> QED
        BY <1>1, <2>4, <4>3, <4>4, <4>5 DEF AliveAgree
    <3>2. CASE identity # Staked
      BY <1>1, <2>4, <3>2, AliveShrinks
    <3> QED
      BY <3>1, <3>2
  <2> QED
    BY <2>1, <2>2, <2>3, <2>5 DEF SoundInv
<1>8. batch' = batch \/ (identity = Staked /\ batch' = Append(batch, Op("PushVote", vote, h)))
  BY DEF Cast, Signable, h
<1> QED
  BY <1>6, <1>7, <1>8

\* refresh_votes repeats a vote of the history.
LEMMA RefreshVoteKeeps ==
    ASSUME SoundInv, NEW vote \in Candidates, RefreshVote(vote)
    PROVE  SoundInv'
<1> DEFINE op == Op("RefreshVote", vote, history)
<1>1. /\ batch = <<>> /\ vote \in history.votes /\ TRUE \in Signable(identity)
      /\ batch' = <<op>>
      /\ UNCHANGED <<identity, history, bls, refresh_queue, stored, broadcast>>
      /\ unbacked' = IF \E h \in AllSaves : Covers(h, vote) THEN unbacked ELSE unbacked \union {vote}
  BY DEF RefreshVote, serviceVars
<1>2. identity = Staked
  BY <1>1 DEF Signable
<1>3. history \in Histories /\ vote \in Votes
  BY InvTypes, VotingAssumption
<1>4. op \in Ops /\ op.kind = "RefreshVote" /\ op.vote = vote
  BY <1>2, <1>3 DEF Op, Ops, Kinds
<1> HIDE DEF op
<1>5. batch' = Append(batch, op)
  BY <1>1
<1>6. Extends(history, history)
  BY <1>3, HistoriesAre
<1>7. /\ unbacked \subseteq unbacked'
      /\ \/ vote \in unbacked'
         \/ \E h \in stored[Staked] \union Saves(bls) \union Saves(batch) : Covers(h, vote)
  BY <1>1 DEF AllSaves
<1> QED
  BY <1>1, <1>2, <1>3, <1>4, <1>5, <1>6, <1>7, BatchGrows

\* set_root forgets votes below the root, all of which the root covers.
LEMMA SetRootKeeps ==
    ASSUME SoundInv, NEW root \in Slots, SetRoot(root)
    PROVE  SoundInv'
<1>0. history \in Histories /\ Alive \subseteq Votes
      /\ stored[Staked] \subseteq Histories /\ Saves(bls) \subseteq Histories /\ Saves(batch) \subseteq Histories
  BY InvTypes
<1>1. /\ root > history.root
      /\ history' = History({v \in history.votes : v.slot >= root}, root)
      /\ UNCHANGED <<identity, batch, bls, refresh_queue, stored, broadcast, unbacked>>
  BY DEF SetRoot, serviceVars, historyVars
<1>2. root \in Nat /\ history.root \in Nat /\ history.votes \subseteq Votes
  BY <1>0, MaxSlotAssumption, HistoriesAre DEF Slots
<1>3. history'.votes = {v \in history.votes : v.slot >= root} /\ history'.root = root
  BY <1>1 DEF History
<1>4. history' \in Histories
  BY <1>1, <1>2 DEF History, Histories
<1>5. Extends(history', history)
  <2>1. history.root <= history'.root
    BY <1>1, <1>2, <1>3
  <2>2. ASSUME NEW v \in history.votes PROVE v \in history'.votes \/ v.slot < history'.root
    <3>1. v.slot \in Nat
      BY <1>2, VoteIs
    <3>2. v.slot >= root \/ v.slot < root
      BY <1>2, <3>1
    <3> QED
      BY <1>3, <3>2
  <2> QED
    BY <2>1, <2>2 DEF Extends, Covers
<1>6. VotingTypeOK' /\ OneFile' /\ SpareBatch' /\ Durable'
  BY <1>1, <1>4 DEF SoundInv, VotingTypeOK, OneFile, SpareBatch, Durable, Disk
<1>7. SavesOrdered'
  <2>1. identity = Staked =>
          \A h \in stored[Staked] \union Saves(bls) \union Saves(batch) : Extends(history', h)
    <3>1. identity = Staked =>
          \A h \in stored[Staked] \union Saves(bls) \union Saves(batch) : Extends(history, h) /\ h \in Histories
      BY <1>0 DEF SoundInv, SavesOrdered
    <3> QED
      BY <1>0, <1>4, <1>5, <3>1, ExtendsLater
  <2> QED
    BY <1>1, <2>1 DEF SoundInv, SavesOrdered
<1>8. SavesBacked'
  BY <1>1, <1>3 DEF SoundInv, SavesBacked, Disk
<1>9. Alive' \subseteq Alive
  BY <1>1, <1>3, AliveIs
<1>10. AliveAgree'
  <2>1. ASSUME identity = Staked, NEW v \in Alive PROVE Covers(history', v)
    <3>1. Covers(history, v) /\ v \in Votes
      BY <1>0, <2>1 DEF SoundInv, AliveAgree
    <3> QED
      BY <1>0, <1>4, <1>5, <3>1, CoversLater
  <2> QED
    BY <1>1, <1>9, <2>1, AliveShrinks
<1> QED
  BY <1>6, <1>7, <1>8, <1>10 DEF SoundInv

\* The event loop hands the first op of the batch to the channel.
LEMMA SendOpKeeps ==
    ASSUME SoundInv, SendOp
    PROVE  SoundInv'
<1> DEFINE op == Head(batch)
           push == {g \in {op.saved} : op.kind = "PushVote"}
           sent == {v \in {op.vote} : op.kind \in {"PushVote", "RefreshVote"}}
<1>0. /\ batch \in Seq(Ops) /\ bls \in Seq(Ops) /\ batch # <<>>
      /\ bls' = Append(bls, op) /\ batch' = Tail(batch)
      /\ UNCHANGED <<identity, history, refresh_queue, stored, broadcast, unbacked>>
  BY InvTypes DEF SendOp, serviceVars, historyVars
<1>1. /\ op \in Ops /\ batch' \in Seq(Ops)
      /\ Saves(batch) = Saves(batch') \union push
      /\ OpVotes(batch) = OpVotes(batch') \union sent
      /\ Ordered(batch) => /\ Ordered(batch')
                           /\ op.kind = "PushVote" => \A g \in Saves(batch') : Extends(g, op.saved)
      /\ \A B : Backed(batch, B) =>
           /\ Backed(batch', B \union push)
           /\ op.kind \in {"PushVote", "RefreshVote"} => \E h \in B \union push : Covers(h, op.vote)
  BY <1>0, TailOps
<1>2. /\ bls' \in Seq(Ops)
      /\ Saves(bls') = Saves(bls) \union push
      /\ OpVotes(bls') = OpVotes(bls) \union sent
  BY <1>0, <1>1, AppendOps
<1>3. SavesOrdered /\ SavesBacked
  BY DEF SoundInv
<1>4. \A g \in push : g = op.saved /\ op.kind = "PushVote" /\ g \in Saves(batch)
  BY <1>1
<1>5. SavesOrdered'
  <2>1. Ordered(bls')
    <3>1. op.kind = "PushVote" => \A h \in Saves(bls) : Extends(op.saved, h)
      <4>1. op.kind = "PushVote" => op.saved \in Saves(batch)
        BY <1>1
      <4> QED
        BY <1>3, <4>1 DEF SavesOrdered
    <3> QED
      BY <1>0, <1>1, <1>3, <3>1, AppendOps DEF SavesOrdered
  <2>2. Ordered(batch') /\ \A h \in push, g \in Saves(batch') : Extends(g, h)
    BY <1>1, <1>3, <1>4 DEF SavesOrdered
  <2> HIDE DEF push, sent, op
  <2>3. Saves(bls') \union Saves(batch') = Saves(bls) \union Saves(batch) /\ Saves(batch') \subseteq Saves(batch)
    BY <1>1, <1>2
  <2>4. \A h \in Saves(bls'), g \in Saves(batch') : Extends(g, h)
    BY <1>2, <1>3, <2>2, <2>3 DEF SavesOrdered
  <2>5. \A h \in stored[Staked], g \in Saves(bls') \union Saves(batch') : Extends(g, h)
    BY <1>3, <2>3 DEF SavesOrdered
  <2>6. identity = Staked =>
          \A h \in stored[Staked] \union Saves(bls') \union Saves(batch') : Extends(history, h)
    BY <1>3, <2>3 DEF SavesOrdered
  <2> QED
    BY <1>0, <2>1, <2>2, <2>4, <2>5, <2>6 DEF SavesOrdered
<1>6. SavesBacked'
  <2>1. Backed(bls', Disk)
    <3>1. op.kind \in {"PushVote", "RefreshVote"} =>
            \/ \E h \in Disk \union Saves(bls) : Covers(h, op.vote)
            \/ op.kind = "PushVote" /\ Covers(op.saved, op.vote)
      BY <1>1, <1>3, <1>4 DEF SavesBacked, Disk
    <3>2. Backed(bls, Disk)
      BY <1>3 DEF SavesBacked, Disk
    <3> QED
      BY <1>0, <1>1, <3>1, <3>2, AppendOps
  <2>2. Backed(batch', Disk \union Saves(bls'))
    <3>1. Backed(batch', (Disk \union Saves(bls)) \union push)
      BY <1>1, <1>3 DEF SavesBacked, Disk
    <3>2. (Disk \union Saves(bls)) \union push = Disk \union Saves(bls')
      BY <1>2
    <3> QED
      BY <3>1, <3>2
  <2>3. Disk' = Disk
    BY <1>0 DEF Disk
  <2> QED
    BY <1>0, <1>3, <2>1, <2>2, <2>3 DEF SavesBacked
<1>7. Alive' \subseteq Alive
  <2> HIDE DEF push, sent, op
  <2>1. /\ Saves(bls') \union Saves(batch') = Saves(bls) \union Saves(batch)
        /\ OpVotes(bls') \union OpVotes(batch') = OpVotes(bls) \union OpVotes(batch)
    BY <1>1, <1>2
  <2> QED
    BY <1>0, <2>1, AliveIs
<1>8. AliveAgree'
  BY <1>0, <1>7, AliveShrinks DEF SoundInv, AliveAgree
<1>9. VotingTypeOK' /\ OneFile' /\ SpareBatch' /\ Durable'
  BY <1>0, <1>1, <1>2 DEF SoundInv, VotingTypeOK, OneFile, SpareBatch, Durable, Disk
<1> QED
  BY <1>5, <1>6, <1>8, <1>9 DEF SoundInv

\* A history that is restored without a lapse is the file, or empty if there is none.
LEMMA RestoredIs ==
    ASSUME SoundInv, NEW id \in Identities, NEW g \in Restored(id),
           id = Staked => "LoadFailed" \notin Lapses(id, g)
    PROVE  /\ g \in Histories
           /\ id = Staked => \A h \in stored[Staked] : g = h
           /\ id = Staked => \A v \in g.votes : \E h \in stored[Staked] : v \in h.votes
<1>1. stored[id] \subseteq Histories /\ \A f, h \in stored[id] : f = h
  BY DEF SoundInv, VotingTypeOK, OneFile
<1>2. History({}, 0) \in Histories /\ History({}, 0).votes = {}
  BY DEF History, Histories
<1>3. g \in stored[id] \/ g = History({}, 0)
  BY DEF Restored
<1>4. id = Staked => g \in stored[id] \/ stored[id] = {}
  BY DEF Lapses
<1> QED
  BY <1>1, <1>2, <1>3, <1>4

\* The event handler goes on with a history from disk.  If it is that of the staked
\* identity, nothing that is under way will be saved.
LEMMA RestartKeeps ==
    ASSUME SoundInv, identity' \in Identities, history' \in Restored(identity'),
           identity' = Staked => Lapses(identity', history') = {},
           bls' = bls \/ bls' = <<>>, batch' = <<>>, refresh_queue' \subseteq refresh_queue,
           UNCHANGED <<stored, broadcast, unbacked>>
    PROVE  SoundInv'
<1>0. /\ Saves(bls') \subseteq Saves(bls) /\ OpVotes(bls') \subseteq OpVotes(bls)
      /\ Ordered(bls') /\ Backed(bls', Disk)
      /\ Saves(batch') = {} /\ OpVotes(batch') = {} /\ Ordered(batch')
      /\ Backed(batch', Disk \union Saves(bls'))
      /\ Disk' = Disk
  BY EmptyOps DEF SoundInv, SavesOrdered, SavesBacked, Disk
<1>1. /\ history' \in Histories
      /\ identity' = Staked => \A h \in stored[Staked] : history' = h /\ h \in Histories
      /\ identity' = Staked => \A v \in history'.votes : \E h \in stored[Staked] : v \in h.votes
  BY RestoredIs, InvTypes
<1>2. identity' = Staked => Saves(bls') = {}
  BY DEF Lapses
<1>3. bls' \in Seq(Ops) /\ batch' \in Seq(Ops)
  <2>1. bls \in Seq(Ops) /\ <<>> \in Seq(Ops)
    BY InvTypes
  <2> QED
    BY <2>1
<1>4. VotingTypeOK'
  BY <1>1, <1>3 DEF SoundInv, VotingTypeOK
<1>5. OneFile' /\ SpareBatch' /\ Durable'
  BY DEF SoundInv, OneFile, SpareBatch, Durable, Disk
<1>6. SavesOrdered'
  <2>1. identity' = Staked => \A h \in stored[Staked] : Extends(history', h)
    BY <1>1, HistoriesAre
  <2>2. \A h \in stored[Staked], g \in Saves(bls') : Extends(g, h)
    BY <1>0 DEF SoundInv, SavesOrdered
  <2> QED
    BY <1>0, <1>2, <2>1, <2>2 DEF SavesOrdered
<1>7. SavesBacked'
  BY <1>0 DEF SoundInv, SavesBacked
<1>8. Alive' \subseteq Alive
  BY <1>0, <1>1, AliveIs
<1>9. ASSUME identity' = Staked, NEW v \in Alive' PROVE Covers(history', v)
  <2>1. v \in Votes /\ v.slot \in Nat
    BY <1>8, InvTypes, VoteIs
  <2>2. \A h \in Disk : Covers(h, v) => h \in stored[Staked] \/ v \in unbacked
    BY <2>1 DEF Disk, Covers, History
  <2>3. CASE \E h \in stored[Staked] : v \in h.votes
    BY <1>1, <1>9, <2>3 DEF Covers
  <2>4. CASE ~ (\E h \in stored[Staked] : v \in h.votes)
    <3>1. /\ v \notin unbacked
          /\ \/ v \in broadcast
             \/ \E m \in refresh_queue' : m[1] = "RefreshVote" /\ v = m[2]
             \/ v \in OpVotes(bls')
      BY <1>0, <1>1, <1>2, <1>9, <2>4, AliveIs
    <3>2. \E h \in Disk : Covers(h, v)
      <4>1. CASE v \in broadcast
        BY <4>1 DEF SoundInv, Durable
      <4>2. CASE \E m \in refresh_queue' : m[1] = "RefreshVote" /\ v = m[2]
        BY <4>2 DEF SoundInv, SavesBacked
      <4>3. CASE v \in OpVotes(bls')
        <5>1. PICK i \in 1..Len(bls') : bls'[i].kind \in {"PushVote", "RefreshVote"} /\ v = bls'[i].vote
          BY <4>3 DEF OpVotes
        <5>2. \A j \in 1..i : bls'[j].kind # "PushVote"
          <6>1. \A j \in 1..i : j \in 1..Len(bls')
            BY <1>3, <5>1
          <6> QED
            BY <1>2, <1>9, <6>1 DEF Saves
        <5> QED
          BY <1>0, <5>1, <5>2 DEF Backed
      <4> QED
        BY <3>1, <4>1, <4>2, <4>3
    <3>3. \E h \in stored[Staked] : Covers(h, v)
      BY <2>2, <3>1, <3>2
    <3> QED
      BY <1>1, <1>9, <3>3
  <2> QED
    BY <2>3, <2>4
<1>10. AliveAgree'
  BY <1>8, <1>9, AliveShrinks
<1> QED
  BY <1>4, <1>5, <1>6, <1>7, <1>10 DEF SoundInv

\* The voting service saves the history of a vote and broadcasts the vote.
LEMMA PushVoteKeeps ==
    ASSUME SoundInv, PushVote
    PROVE  SoundInv'
<1> DEFINE op == Head(bls)
           s == op.saved
<1>0. /\ bls \in Seq(Ops) /\ bls # <<>> /\ op.kind = "PushVote" /\ bls' = Tail(bls)
      /\ stored' = SavedBy(op)
      /\ broadcast' \subseteq broadcast \union {op.vote}
      /\ UNCHANGED <<identity, history, batch, refresh_queue, unbacked>>
  BY InvTypes DEF PushVote, handlerVars, historyVars
<1>1. /\ op \in Ops /\ bls' \in Seq(Ops)
      /\ Saves(bls) = Saves(bls') \union {g \in {s} : op.kind = "PushVote"}
      /\ OpVotes(bls) = OpVotes(bls') \union {v \in {op.vote} : op.kind \in {"PushVote", "RefreshVote"}}
      /\ Ordered(bls) => /\ Ordered(bls')
                         /\ op.kind = "PushVote" => \A g \in Saves(bls') : Extends(g, s)
      /\ \A B : Backed(bls, B) =>
           /\ Backed(bls', B \union {g \in {s} : op.kind = "PushVote"})
           /\ op.kind \in {"PushVote", "RefreshVote"} =>
                \E h \in B \union {g \in {s} : op.kind = "PushVote"} : Covers(h, op.vote)
  BY <1>0, TailOps
<1>2. op.vote \in Votes /\ s \in Histories /\ op.id = Staked
  BY <1>1, OpIs
<1> HIDE DEF op, s
<1>3. /\ Saves(bls) = Saves(bls') \union {s} /\ OpVotes(bls) = OpVotes(bls') \union {op.vote}
      /\ s \in Saves(bls)
  BY <1>0, <1>1
<1>4. {g \in {s} : op.kind = "PushVote"} = {s}
  BY <1>0
<1>5. SavesOrdered /\ SavesBacked /\ Durable /\ OneFile /\ VotingTypeOK /\ SpareBatch
  BY DEF SoundInv
<1>6. /\ stored \in [Identities -> SUBSET Histories] /\ Staked \in Identities
      /\ stored[Staked] \subseteq Histories /\ batch \in Seq(Ops) /\ broadcast \subseteq Votes
      /\ history \in Histories
  BY <1>5, InvTypes DEF VotingTypeOK
<1>7. /\ stored' \in [Identities -> SUBSET Histories] /\ stored'[Staked] = {s}
      /\ \A id \in Identities : id # Staked => stored'[id] = stored[id]
  BY <1>0, <1>2, <1>6 DEF SavedBy, s
<1>8. \A v \in Votes : (\E h \in Disk \union {s} : Covers(h, v)) => \E h \in Disk' : Covers(h, v)
  <2>1. \A h \in stored[Staked] : Extends(s, h) /\ h \in Histories
    BY <1>3, <1>5, <1>6 DEF SavesOrdered
  <2>2. \A v \in Votes : (\E h \in stored[Staked] : Covers(h, v)) => Covers(s, v)
    BY <1>2, <2>1, CoversLater
  <2>3. Disk' = {s} \union {History(unbacked, 0)}
    BY <1>0, <1>7 DEF Disk
  <2> QED
    BY <2>2, <2>3 DEF Disk
<1>9. VotingTypeOK'
  <2>1. broadcast' \subseteq Votes
    BY <1>0, <1>2, <1>6
  <2> QED
    BY <1>0, <1>1, <1>5, <1>7, <2>1 DEF VotingTypeOK
<1>10. OneFile' /\ SpareBatch'
  BY <1>0, <1>5, <1>7 DEF OneFile, SpareBatch
<1>11. SavesOrdered'
  <2>1. Ordered(bls') /\ Ordered(batch') /\ \A g \in Saves(bls') : Extends(g, s)
    BY <1>0, <1>1, <1>5 DEF SavesOrdered
  <2>2. \A g \in Saves(batch') : Extends(g, s)
    BY <1>0, <1>3, <1>5 DEF SavesOrdered
  <2>3. \A h \in Saves(bls'), g \in Saves(batch') : Extends(g, h)
    BY <1>0, <1>3, <1>5 DEF SavesOrdered
  <2>4. identity' = Staked => \A h \in {s} \union Saves(bls') \union Saves(batch') : Extends(history', h)
    BY <1>0, <1>3, <1>5 DEF SavesOrdered
  <2> QED
    BY <1>7, <2>1, <2>2, <2>3, <2>4 DEF SavesOrdered
<1>12. SavesBacked'
  <2>1. Backed(bls', Disk')
    <3>1. Backed(bls', Disk \union {s})
      BY <1>1, <1>4, <1>5 DEF SavesBacked
    <3> QED
      BY <1>1, <1>8, <3>1, BackedBy
  <2>2. \A v \in Votes : (\E h \in Disk \union Saves(bls) : Covers(h, v))
                           => \E h \in Disk' \union Saves(bls') : Covers(h, v)
    BY <1>3, <1>8
  <2>3. Backed(batch', Disk' \union Saves(bls'))
    BY <1>0, <1>5, <1>6, <2>2, BackedBy DEF SavesBacked
  <2>4. \A m \in refresh_queue' : m[1] = "RefreshVote" => \E h \in Disk' : Covers(h, m[2])
    <3>1. \A m \in refresh_queue : m[2] \in Votes
      BY InvTypes
    <3> QED
      BY <1>0, <1>5, <1>8, <3>1 DEF SavesBacked
  <2> QED
    BY <2>1, <2>3, <2>4 DEF SavesBacked
<1>13. Durable'
  <2>1. \A v \in broadcast : \E h \in Disk' : Covers(h, v)
    BY <1>5, <1>6, <1>8 DEF Durable
  <2>2. \E h \in Disk \union {s} : Covers(h, op.vote)
    BY <1>0, <1>1, <1>4, <1>5 DEF SavesBacked
  <2> QED
    BY <1>0, <1>2, <1>8, <2>1, <2>2 DEF Durable
<1>14. Alive' \subseteq Alive
  BY <1>0, <1>3, <1>7, AliveIs
<1>15. AliveAgree'
  BY <1>0, <1>14, AliveShrinks DEF SoundInv, AliveAgree
<1> QED
  BY <1>9, <1>10, <1>11, <1>12, <1>13, <1>15 DEF SoundInv

\* The voting service takes an op that saves nothing.
LEMMA TakeKeeps ==
    ASSUME SoundInv, bls # <<>>, Head(bls).kind # "PushVote", bls' = Tail(bls),
           UNCHANGED <<identity, history, batch, stored, broadcast, unbacked>>,
           \/ refresh_queue' = refresh_queue /\ Head(bls).kind = "PushCertificate"
           \/ /\ Head(bls).kind \in {"RefreshVote", "RefreshCertificate"}
              /\ refresh_queue' = refresh_queue \union {<<Head(bls).kind, Head(bls).vote>>}
    PROVE  SoundInv'
<1> DEFINE op == Head(bls)
           sent == {v \in {op.vote} : op.kind \in {"PushVote", "RefreshVote"}}
           none == {g \in {op.saved} : op.kind = "PushVote"}
<1>0. bls \in Seq(Ops)
  BY InvTypes
<1>1. /\ op \in Ops /\ bls' \in Seq(Ops)
      /\ Saves(bls) = Saves(bls') \union none
      /\ OpVotes(bls) = OpVotes(bls') \union sent
      /\ Ordered(bls) => Ordered(bls')
      /\ \A B : Backed(bls, B) =>
           /\ Backed(bls', B \union none)
           /\ op.kind \in {"PushVote", "RefreshVote"} => \E h \in B \union none : Covers(h, op.vote)
  BY <1>0, TailOps
<1>2. none = {} /\ op.vote \in Votes
  BY <1>1, OpIs
<1>3. \A B : B \union {} = B
  OBVIOUS
<1>4. op.kind = "RefreshVote" => op.vote \in OpVotes(bls)
  BY <1>1
<1>5. \/ refresh_queue' = refresh_queue
      \/ /\ op.kind \in {"RefreshVote", "RefreshCertificate"}
         /\ refresh_queue' = refresh_queue \union {<<op.kind, op.vote>>}
  OBVIOUS
<1> HIDE DEF op, none, sent
<1>6. Saves(bls') = Saves(bls) /\ OpVotes(bls') \subseteq OpVotes(bls)
  BY <1>1, <1>2
<1>7. /\ Ordered(bls') /\ Backed(bls', Disk)
      /\ op.kind = "RefreshVote" => \E h \in Disk : Covers(h, op.vote)
  <2>1. Ordered(bls) /\ Backed(bls, Disk)
    BY DEF SoundInv, SavesOrdered, SavesBacked, Disk
  <2> QED
    BY <1>1, <1>2, <1>3, <2>1
<1>8. VotingTypeOK' /\ OneFile' /\ SpareBatch' /\ Durable'
  <2>1. refresh_queue' \subseteq {"RefreshVote", "RefreshCertificate"} \X Votes
    BY <1>2, <1>5 DEF SoundInv, VotingTypeOK
  <2> QED
    BY <1>1, <2>1 DEF SoundInv, VotingTypeOK, OneFile, SpareBatch, Durable, Disk
<1>9. SavesOrdered'
  BY <1>6, <1>7 DEF SoundInv, SavesOrdered
<1>10. \A m \in refresh_queue' : m \in refresh_queue \/ (m[1] = op.kind /\ m[2] = op.vote)
  BY <1>5
<1>11. SavesBacked'
  <2>1. \A m \in refresh_queue' : m[1] = "RefreshVote" => \E h \in Disk : Covers(h, m[2])
    BY <1>7, <1>10 DEF SoundInv, SavesBacked
  <2>2. Disk' = Disk
    BY DEF Disk
  <2> QED
    BY <1>6, <1>7, <2>1, <2>2 DEF SoundInv, SavesBacked
<1>12. Alive' \subseteq Alive
  BY <1>4, <1>6, <1>10, AliveIs
<1>13. AliveAgree'
  BY <1>12, AliveShrinks DEF SoundInv, AliveAgree
<1> QED
  BY <1>8, <1>9, <1>11, <1>13 DEF SoundInv

\* A message of the standstill queue is broadcast.
LEMMA BroadcastRefreshKeeps ==
    ASSUME SoundInv, NEW m \in refresh_queue, BroadcastRefresh(m)
    PROVE  SoundInv'
<1>0. /\ UNCHANGED <<identity, history, batch, bls, stored, refresh_queue, unbacked>>
      /\ \/ broadcast' = broadcast
         \/ m[1] = "RefreshVote" /\ broadcast' = broadcast \union {m[2]}
      /\ m[2] \in Votes
  BY InvTypes DEF BroadcastRefresh, handlerVars, historyVars
<1>1. VotingTypeOK' /\ OneFile' /\ SpareBatch'
  BY <1>0 DEF SoundInv, VotingTypeOK, OneFile, SpareBatch
<1>2. SavesOrdered' /\ SavesBacked'
  BY <1>0 DEF SoundInv, SavesOrdered, SavesBacked, Disk
<1>3. Durable'
  BY <1>0 DEF SoundInv, SavesBacked, Durable, Covers, Disk
<1>4. Alive' \subseteq Alive
  BY <1>0, AliveIs
<1>5. AliveAgree'
  BY <1>0, <1>4, AliveShrinks DEF SoundInv, AliveAgree
<1> QED
  BY <1>1, <1>2, <1>3, <1>5 DEF SoundInv

-----------------------------------------------------------------------------
(* The theorems                                                              *)

\* Nothing has been voted yet.
LEMMA InitInv == Init => SoundInv
<1> SUFFICES ASSUME Init PROVE SoundInv
  OBVIOUS
<1>0. /\ Saves(bls) = {} /\ OpVotes(bls) = {} /\ Ordered(bls) /\ \A B : Backed(bls, B)
      /\ Saves(batch) = {} /\ OpVotes(batch) = {} /\ Ordered(batch) /\ \A B : Backed(batch, B)
  BY EmptyOps DEF Init
<1>1. Staked \in Identities /\ stored[Staked] = {} /\ history.votes = {}
  BY DEF Init, Identities, History
<1>2. VotingTypeOK
  BY <1>1 DEF Init, VotingTypeOK, History, Histories
<1>3. OneFile /\ SpareBatch /\ Durable
  BY DEF Init, OneFile, SpareBatch, Durable, Disk
<1>4. SavesOrdered /\ SavesBacked
  BY <1>0, <1>1 DEF Init, SavesOrdered, SavesBacked, Disk
<1>5. Alive = {}
  BY <1>0, <1>1, AliveIs DEF Init
<1> QED
  BY <1>2, <1>3, <1>4, <1>5 DEF SoundInv, AliveAgree

\* Every step that brings no lapse keeps the sound part.
LEMMA SoundKept ==
    ASSUME SoundInv, [Next]_vars, lapses' = {}
    PROVE  SoundInv'
<1>1. ASSUME NEW v \in Candidates, Cast(v) PROVE SoundInv'
  BY <1>1, CastKeeps
<1>2. ASSUME NEW v \in Candidates, RefreshVote(v) PROVE SoundInv'
  BY <1>2, RefreshVoteKeeps
<1>3. ASSUME NEW v \in Candidates, ReceiveOwnVote(v) PROVE SoundInv'
  BY <1>3, QuietKeeps DEF ReceiveOwnVote, handlerVars, serviceVars, historyVars
<1>4. ASSUME NEW v \in Candidates, NEW k \in {"PushCertificate", "RefreshCertificate"}, identity = Staked
      PROVE  Op(k, v, History({}, 0)) \in Ops /\ Op(k, v, History({}, 0)).kind = k
  <2>1. History({}, 0) \in Histories
    BY DEF History, Histories
  <2> QED
    BY <1>4, <2>1, VotingAssumption DEF Op, Ops, Kinds
<1>5. ASSUME NEW v \in Candidates, CompleteCertificate(v) PROVE SoundInv'
  <2>1. UNCHANGED <<identity, history, batch, refresh_queue, stored, broadcast, unbacked>>
    BY <1>5 DEF CompleteCertificate, handlerVars, serviceVars, historyVars
  <2>2. CASE bls' = bls
    BY <2>1, <2>2, QuietKeeps
  <2>3. CASE identity = Staked /\ bls' = Append(bls, Op("PushCertificate", v, History({}, 0)))
    BY <1>4, <2>1, <2>3, CertificateKeeps
  <2> QED
    BY <1>5, <2>2, <2>3 DEF CompleteCertificate
<1>6. ASSUME NEW v \in Candidates, RefreshCertificate(v) PROVE SoundInv'
  BY <1>4, <1>6, CertificateKeeps DEF RefreshCertificate, handlerVars, serviceVars, historyVars
<1>7. ASSUME NEW s \in Slots, SetRoot(s) PROVE SoundInv'
  BY <1>7, SetRootKeeps
<1>8. ASSUME NEW s \in Slots, PruneQueue(s) PROVE SoundInv'
  BY <1>8, QuietKeeps DEF PruneQueue, handlerVars, historyVars
<1>9. ASSUME SendOp PROVE SoundInv'
  BY <1>9, SendOpKeeps
<1>10. ASSUME PushVote PROVE SoundInv'
  BY <1>10, PushVoteKeeps
<1>11. ASSUME PushCertificate PROVE SoundInv'
  BY <1>11, TakeKeeps DEF PushCertificate, handlerVars, historyVars
<1>12. ASSUME QueueRefresh PROVE SoundInv'
  BY <1>12, TakeKeeps DEF QueueRefresh, handlerVars, historyVars
<1>13. ASSUME NEW m \in refresh_queue, BroadcastRefresh(m) PROVE SoundInv'
  BY <1>13, BroadcastRefreshKeeps
<1>14. ASSUME NEW id \in Identities, NEW queued, Restore(id, queued)
       PROVE  /\ identity' = id /\ history' \in Restored(identity')
              /\ Lapses(identity', history') = {}
  BY <1>14 DEF Restore
<1>15. ASSUME NEW id \in Identities, SetIdentity(id) PROVE SoundInv'
  <2>1. /\ identity' \in Identities /\ history' \in Restored(identity')
        /\ Lapses(identity', history') = {}
    BY <1>14, <1>15 DEF SetIdentity
  <2>2. /\ bls' = bls /\ batch' = <<>> /\ refresh_queue' = refresh_queue
        /\ UNCHANGED <<stored, broadcast, unbacked>>
    BY <1>15 DEF SetIdentity, serviceVars
  <2> QED
    BY <2>1, <2>2, RestartKeeps
<1>16. ASSUME Crash PROVE SoundInv'
  <2>1. Staked \in Identities
    BY DEF Identities
  <2>2. /\ identity' \in Identities /\ history' \in Restored(identity')
        /\ Lapses(identity', history') = {}
    BY <1>14, <1>16, <2>1 DEF Crash
  <2>3. /\ bls' = <<>> /\ batch' = <<>> /\ refresh_queue' \subseteq refresh_queue
        /\ UNCHANGED <<stored, broadcast, unbacked>>
    BY <1>16 DEF Crash
  <2> QED
    BY <2>2, <2>3, RestartKeeps
<1>17. CASE UNCHANGED vars
  BY <1>17, QuietKeeps DEF vars
<1> QED
  BY <1>1, <1>2, <1>3, <1>5, <1>6, <1>7, <1>8, <1>9, <1>10, <1>11, <1>12, <1>13, <1>15, <1>16, <1>17
     DEF Next

\* A lapse is never forgotten.
LEMMA LapsesStay == [Next]_vars => lapses \subseteq lapses'
<1> SUFFICES ASSUME [Next]_vars PROVE lapses \subseteq lapses'
  OBVIOUS
<1>1. ASSUME NEW v \in Candidates, \/ Cast(v) \/ RefreshVote(v) \/ ReceiveOwnVote(v)
                                   \/ CompleteCertificate(v) \/ RefreshCertificate(v)
      PROVE  lapses' = lapses
  BY <1>1 DEF Cast, RefreshVote, ReceiveOwnVote, CompleteCertificate, RefreshCertificate, historyVars
<1>2. ASSUME NEW s \in Slots, SetRoot(s) \/ PruneQueue(s) PROVE lapses' = lapses
  BY <1>2 DEF SetRoot, PruneQueue, historyVars
<1>3. ASSUME SendOp \/ PushVote \/ PushCertificate \/ QueueRefresh PROVE lapses' = lapses
  BY <1>3 DEF SendOp, PushVote, PushCertificate, QueueRefresh, historyVars
<1>4. ASSUME NEW m \in refresh_queue, BroadcastRefresh(m) PROVE lapses' = lapses
  BY <1>4 DEF BroadcastRefresh, historyVars
<1>5. ASSUME NEW id, NEW queued, Restore(id, queued) PROVE lapses \subseteq lapses'
  BY <1>5 DEF Restore
<1>6. ASSUME NEW id \in Identities, SetIdentity(id) PROVE lapses \subseteq lapses'
  BY <1>5, <1>6 DEF SetIdentity
<1>7. ASSUME Crash PROVE lapses \subseteq lapses'
  BY <1>5, <1>7 DEF Crash
<1>8. CASE UNCHANGED vars
  BY <1>8 DEF vars
<1> QED
  BY <1>1, <1>2, <1>3, <1>4, <1>6, <1>7, <1>8 DEF Next


\* Every step keeps the types; only the staked identity has ops.
LEMMA TypesKept == VotingTypeOK /\ [Next]_vars => VotingTypeOK'
<1> SUFFICES ASSUME VotingTypeOK, [Next]_vars PROVE VotingTypeOK'
  OBVIOUS
<1>0. /\ Staked \in Identities /\ identity \in Identities
      /\ batch \in Seq(Ops) /\ bls \in Seq(Ops) /\ history \in Histories
      /\ Candidates \subseteq Votes
      /\ History({}, 0) \in Histories
  BY VotingAssumption DEF VotingTypeOK, Identities, History, Histories
<1>1. ASSUME NEW v \in Candidates, Cast(v) PROVE VotingTypeOK'
  <2> DEFINE h == [history EXCEPT !.votes = @ \union {v}]
  <2>1. h \in Histories
    <3>1. history \in [votes : SUBSET Votes, root : Nat] /\ \A w \in history.votes : w.slot >= history.root
      BY <1>0 DEF Histories
    <3>2. v \in Votes /\ v.slot \in Nat /\ v.slot > history.root
      BY <1>0, <1>1, VoteIs DEF Cast, Fits
    <3>3. /\ h \in [votes : SUBSET Votes, root : Nat]
          /\ h.votes = history.votes \union {v} /\ h.root = history.root
      BY <3>1, <3>2
    <3> HIDE DEF h
    <3>4. \A w \in h.votes : w.slot >= h.root
      BY <3>1, <3>2, <3>3
    <3> QED
      BY <3>3, <3>4 DEF Histories
  <2> HIDE DEF h
  <2>2. batch' \in Seq(Ops)
    <3>1. CASE identity = Staked
      <4>1. Op("PushVote", v, h) \in Ops
        BY <1>0, <2>1, <3>1 DEF Op, Ops, Kinds
      <4>2. batch' = batch \/ batch' = Append(batch, Op("PushVote", v, h))
        BY <1>1 DEF Cast, h
      <4> QED
        BY <1>0, <4>1, <4>2
    <3>2. CASE identity # Staked
      BY <1>0, <1>1, <3>2 DEF Cast, Signable
    <3> QED
      BY <3>1, <3>2
  <2> QED
    BY <1>1, <2>1, <2>2 DEF Cast, VotingTypeOK, serviceVars, h
<1>2. ASSUME NEW v \in Candidates, RefreshVote(v) PROVE VotingTypeOK'
  <2>1. identity = Staked
    BY <1>2 DEF RefreshVote, Signable
  <2>2. Op("RefreshVote", v, history) \in Ops
    BY <1>0, <2>1 DEF Op, Ops, Kinds
  <2> QED
    BY <1>2, <2>2 DEF RefreshVote, VotingTypeOK, serviceVars
<1>3. ASSUME NEW v \in Candidates, ReceiveOwnVote(v) PROVE VotingTypeOK'
  BY <1>3 DEF ReceiveOwnVote, VotingTypeOK, handlerVars, serviceVars
<1>4. ASSUME NEW v \in Candidates, NEW k \in {"PushCertificate", "RefreshCertificate"}, identity = Staked
      PROVE  Append(bls, Op(k, v, History({}, 0))) \in Seq(Ops)
  <2>1. Op(k, v, History({}, 0)) \in Ops
    BY <1>0, <1>4 DEF Op, Ops, Kinds
  <2> QED
    BY <1>0, <2>1
<1>5. ASSUME NEW v \in Candidates, CompleteCertificate(v) PROVE VotingTypeOK'
  <2>1. bls' \in Seq(Ops)
    BY <1>0, <1>4, <1>5 DEF CompleteCertificate
  <2> QED
    BY <1>5, <2>1 DEF CompleteCertificate, VotingTypeOK, handlerVars, serviceVars
<1>6. ASSUME NEW v \in Candidates, RefreshCertificate(v) PROVE VotingTypeOK'
  <2>1. bls' \in Seq(Ops)
    BY <1>0, <1>4, <1>6 DEF RefreshCertificate
  <2> QED
    BY <1>6, <2>1 DEF RefreshCertificate, VotingTypeOK, handlerVars, serviceVars
<1>7. ASSUME NEW s \in Slots, SetRoot(s) PROVE VotingTypeOK'
  <2>1. s \in Nat
    BY MaxSlotAssumption DEF Slots
  <2>2. history' \in Histories
    BY <1>0, <1>7, <2>1 DEF SetRoot, History, Histories
  <2> QED
    BY <1>7, <2>2 DEF SetRoot, VotingTypeOK, serviceVars
<1>8. ASSUME NEW s \in Slots, PruneQueue(s) PROVE VotingTypeOK'
  BY <1>8 DEF PruneQueue, VotingTypeOK, handlerVars
<1>9. ASSUME SendOp PROVE VotingTypeOK'
  <2>1. Head(batch) \in Ops /\ Tail(batch) \in Seq(Ops)
    BY <1>0, <1>9 DEF SendOp
  <2>2. bls' \in Seq(Ops) /\ batch' \in Seq(Ops)
    BY <1>0, <1>9, <2>1 DEF SendOp
  <2> QED
    BY <1>9, <2>2 DEF SendOp, VotingTypeOK, serviceVars
<1>10. bls # <<>> => Head(bls) \in Ops /\ Tail(bls) \in Seq(Ops)
  BY <1>0
<1>11. ASSUME PushVote PROVE VotingTypeOK'
  <2>1. Head(bls).id = Staked /\ Head(bls).saved \in Histories /\ Head(bls).vote \in Votes
    BY <1>10, <1>11, OpIs DEF PushVote
  <2>2. stored' \in [Identities -> SUBSET Histories]
    BY <1>0, <1>11, <2>1 DEF PushVote, SavedBy, VotingTypeOK
  <2>3. broadcast' \subseteq Votes
    BY <1>11, <2>1 DEF PushVote, VotingTypeOK
  <2> QED
    BY <1>10, <1>11, <2>2, <2>3 DEF PushVote, VotingTypeOK, handlerVars
<1>12. ASSUME PushCertificate PROVE VotingTypeOK'
  BY <1>10, <1>12 DEF PushCertificate, VotingTypeOK, handlerVars
<1>13. ASSUME QueueRefresh PROVE VotingTypeOK'
  <2>1. Head(bls).vote \in Votes /\ Head(bls).kind \in {"RefreshVote", "RefreshCertificate"}
    BY <1>10, <1>13, OpIs DEF QueueRefresh
  <2>2. refresh_queue' \subseteq {"RefreshVote", "RefreshCertificate"} \X Votes
    BY <1>13, <2>1 DEF QueueRefresh, VotingTypeOK
  <2> QED
    BY <1>10, <1>13, <2>2 DEF QueueRefresh, VotingTypeOK, handlerVars
<1>14. ASSUME NEW m \in refresh_queue, BroadcastRefresh(m) PROVE VotingTypeOK'
  BY <1>14 DEF BroadcastRefresh, VotingTypeOK, handlerVars
<1>15. ASSUME NEW id \in Identities, NEW queued, Restore(id, queued)
       PROVE  identity' \in Identities /\ history' \in Histories
  <2>1. Restored(id) \subseteq Histories
    BY <1>0 DEF Restored, VotingTypeOK
  <2> QED
    BY <1>15, <2>1 DEF Restore
<1>16. ASSUME NEW id \in Identities, SetIdentity(id) PROVE VotingTypeOK'
  <2>1. identity' \in Identities /\ history' \in Histories
    BY <1>15, <1>16 DEF SetIdentity
  <2> QED
    BY <1>16, <2>1 DEF SetIdentity, VotingTypeOK, serviceVars
<1>17. ASSUME Crash PROVE VotingTypeOK'
  <2>1. identity' \in Identities /\ history' \in Histories
    BY <1>0, <1>15, <1>17 DEF Crash
  <2> QED
    BY <1>17, <2>1 DEF Crash, VotingTypeOK
<1>18. CASE UNCHANGED vars
  BY <1>18 DEF vars, VotingTypeOK
<1> QED
  BY <1>1, <1>2, <1>3, <1>5, <1>6, <1>7, <1>8, <1>9, <1>11, <1>12, <1>13, <1>14, <1>16, <1>17, <1>18
     DEF Next

\* The invariant holds in every state, whatever is signed, switched or lost.
THEOREM VotingInvariance == Spec => []VotingInv
<1>1. Init => VotingInv
  BY InitInv DEF VotingInv, SoundInv
<1>2. VotingInv /\ [Next]_vars => VotingInv'
  <2> SUFFICES ASSUME VotingInv, [Next]_vars PROVE VotingInv'
    OBVIOUS
  <2>1. VotingTypeOK'
    BY TypesKept DEF VotingInv
  <2>2. ASSUME lapses' = {} PROVE SoundInv'
    <3>1. SoundInv
      BY <2>2, LapsesStay DEF VotingInv
    <3> QED
      BY <2>2, <3>1, SoundKept
  <2> QED
    BY <2>1, <2>2 DEF VotingInv
<1> QED
  BY <1>1, <1>2, PTL DEF Spec

\* A vote that has left the node is in the history on disk, or its slot has been
\* rooted there: VoteHistory is stored before the broadcast, and every later file
\* covers what an earlier one did, however the process died in between.  Exempt are
\* the votes refreshed before a save, and what follows a lapse.
THEOREM VotesAreDurable == Spec => []VotesDurable
<1>1. VotingInv => VotesDurable
  <2> SUFFICES ASSUME VotingInv, lapses = {}, NEW v \in broadcast \ unbacked
               PROVE  \E h \in stored[Staked] : Covers(h, v)
    BY DEF VotesDurable
  <2>1. v \in Votes /\ v.slot \in Nat
    BY VoteIs DEF VotingInv, VotingTypeOK
  <2>2. ~ Covers(History(unbacked, 0), v)
    BY <2>1 DEF Covers, History
  <2>3. \E h \in Disk : Covers(h, v)
    BY DEF VotingInv, SoundInv, Durable
  <2> QED
    BY <2>2, <2>3 DEF Disk
<1>2. Spec => []VotingInv
  BY VotingInvariance
<1> QED
  BY <1>1, <1>2, PTL

\* No two votes that have left the node exclude each other, over all crashes,
\* restarts and changes of identity, with the same exceptions.
THEOREM CrashesNeverEquivocate == Spec => []NeverEquivocates
<1>1. VotingInv => NeverEquivocates
  BY AliveIs DEF VotingInv, SoundInv, AliveAgree, NeverEquivocates
<1>2. Spec => []VotingInv
  BY VotingInvariance
<1> QED
  BY <1>1, <1>2, PTL

-----------------------------------------------------------------------------
(* The pool and the own votes                                                *)

\* Every step keeps the own votes in the pool, or on their way to it.
LEMMA SeenKept == VotingTypeOK /\ PoolSeesOwnVotes /\ [Next]_vars => PoolSeesOwnVotes'
<1> SUFFICES ASSUME VotingTypeOK, PoolSeesOwnVotes, [Next]_vars PROVE PoolSeesOwnVotes'
  OBVIOUS
<1>0. history \in Histories /\ Staked \in Identities
  BY DEF VotingTypeOK, Identities
<1>1. ASSUME NEW v \in Candidates, Cast(v) PROVE PoolSeesOwnVotes'
  <2>1. history'.votes = history.votes \union {v}
    BY <1>0, <1>1 DEF Cast, Histories
  <2>2. /\ own_votes \subseteq own_votes' /\ unsent \subseteq unsent'
        /\ v \in own_votes' \/ v \in unsent'
        /\ UNCHANGED <<identity, pool_votes, pool_root>>
    BY <1>1 DEF Cast, poolVars
  <2> QED
    BY <2>1, <2>2 DEF PoolSeesOwnVotes
<1>2. ASSUME NEW v \in Candidates, ReceiveOwnVote(v) PROVE PoolSeesOwnVotes'
  BY <1>2 DEF ReceiveOwnVote, PoolSeesOwnVotes, handlerVars, historyVars
<1>3. ASSUME NEW s \in Slots, SetRoot(s) PROVE PoolSeesOwnVotes'
  BY <1>3 DEF SetRoot, PoolSeesOwnVotes, poolVars, History, historyVars
<1>4. ASSUME NEW id, NEW queued, Restore(id, queued) PROVE PoolSeesOwnVotes'
  <2>1. PICK h \in Restored(id), root \in Slots, signed \in Signable(id) :
          /\ history' = h /\ pool_root' = MaxOf(h.root, root)
          /\ own_votes' = IF signed THEN queued \union SentToPool(h, root) ELSE queued
          /\ unsent' = IF signed THEN {} ELSE h.votes
    BY <1>4 DEF Restore
  <2>2. \A v \in h.votes : v \in unsent' \/ v \in own_votes' \/ ~ (v.slot >= pool_root')
    BY <2>1 DEF SentToPool
  <2> QED
    BY <2>1, <2>2 DEF PoolSeesOwnVotes, SentToPool
<1>5. ASSUME (\E id \in Identities : SetIdentity(id)) \/ Crash PROVE PoolSeesOwnVotes'
  BY <1>4, <1>5 DEF SetIdentity, Crash
<1>6. ASSUME UNCHANGED <<identity, history, own_votes, pool_votes, pool_root, unsent>> PROVE PoolSeesOwnVotes'
  BY <1>6 DEF PoolSeesOwnVotes
<1>7. ASSUME NEW v \in Candidates, RefreshVote(v) \/ CompleteCertificate(v) \/ RefreshCertificate(v)
      PROVE  PoolSeesOwnVotes'
  BY <1>6, <1>7 DEF RefreshVote, CompleteCertificate, RefreshCertificate, handlerVars, poolVars, historyVars
<1>8. ASSUME NEW s \in Slots, PruneQueue(s) PROVE PoolSeesOwnVotes'
  BY <1>6, <1>8 DEF PruneQueue, handlerVars, poolVars, historyVars
<1>9. ASSUME SendOp \/ PushVote \/ PushCertificate \/ QueueRefresh PROVE PoolSeesOwnVotes'
  BY <1>6, <1>9 DEF SendOp, PushVote, PushCertificate, QueueRefresh, handlerVars, poolVars, historyVars
<1>10. ASSUME NEW m \in refresh_queue, BroadcastRefresh(m) PROVE PoolSeesOwnVotes'
  BY <1>6, <1>10 DEF BroadcastRefresh, handlerVars, poolVars, historyVars
<1>11. CASE UNCHANGED vars
  BY <1>6, <1>11 DEF vars
<1> QED
  BY <1>1, <1>2, <1>3, <1>4, <1>5, <1>7, <1>8, <1>9, <1>10, <1>11 DEF Next

\* The pool has every vote of the staked identity's history that could be signed and
\* is not below the root, or the vote is in the channel to it:
\* insert_vote_and_create_bls_message sends each one there, and
\* send_vote_history_to_consensus_pool those of a restored history.
THEOREM PoolAlwaysSees == Spec => []PoolSeesOwnVotes
<1>1. Init => VotingTypeOK /\ PoolSeesOwnVotes
  BY InitInv DEF SoundInv, Init, PoolSeesOwnVotes, History
<1>2. VotingTypeOK /\ [Next]_vars => VotingTypeOK'
  BY TypesKept
<1>3. VotingTypeOK /\ PoolSeesOwnVotes /\ [Next]_vars => PoolSeesOwnVotes'
  BY SeenKept
<1> QED
  BY <1>1, <1>2, <1>3, PTL DEF Spec

=============================================================================
