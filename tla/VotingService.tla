--------------------------- MODULE VotingService ---------------------------
(***************************************************************************)
(* How a vote leaves the validator and how it survives a crash             *)
(* (votor/src/voting_service.rs, voting_utils.rs, vote_history_storage.rs, *)
(* and the parts of event_handler.rs and consensus_pool_service.rs that    *)
(* feed the voting service).                                               *)
(*                                                                         *)
(* The event handler puts a vote into its history, hands it to the pool    *)
(* and, at the end of the event, to the voting service, which saves the    *)
(* history before it broadcasts the vote.  The pool may complete a         *)
(* certificate with the vote meanwhile.  The history is reduced to its     *)
(* votes and its root; which votes fit a history is EventHandler's         *)
(* subject, here they are those that do not contradict it.                 *)
(***************************************************************************)
EXTENDS ConsensusVotes, Sequences

CONSTANTS
    Candidates,     \* bound: the votes the event handler may come to cast
    Certifiable,    \* bound: those of them that may complete a certificate
    MaxCrashes,     \* bound: how often the process dies
    MaxSwitches,    \* bound: how often set-identity is called
    MaxBlsOps,      \* MAX_BLS_MESSAGES_TO_SEND, the capacity of the bls channel
    Spares          \* identities without stake that set-identity may switch to

ASSUME VotingAssumption ==
    /\ Candidates \subseteq Votes /\ Certifiable \subseteq Candidates
    /\ MaxCrashes \in Nat /\ MaxSwitches \in Nat /\ MaxBlsOps \in Nat \ {0}

Staked == "staked"
Identities == {Staked} \union Spares

VARIABLES
    identity,         \* event handler: identity_keypair
    history,          \* event handler: vote_history of the current identity
    batch,            \* event handler: the ops of the event being handled
    own_votes,        \* channel from the event handler to the pool
    pool_votes,       \* pool: the own votes it has received
    pool_certs,       \* pool: the own votes that are part of a certificate
    bls,              \* channel to the voting service
    refresh_queue,    \* voting service: messages of the standstill queue
    stored,           \* disk: identity -> the saved history, if any
    broadcast,        \* the votes of Staked that have left the node
    certified,        \* the votes of Staked in certificates that have left the node
    crashes,
    switches,         \* history: how often the identity was changed
    pool_root,        \* history: the root from which the pool was told of the restored history
    unsent,           \* history: votes of which no message could be made for the pool
    unbacked,         \* history: votes that were refreshed before any save covered them
    lapses            \* history: what has made the event handler forget saved votes

handlerVars == <<identity, history, batch>>
historyVars == <<switches, pool_root, unsent, unbacked, lapses>>
poolVars    == <<pool_votes, pool_certs>>
serviceVars == <<refresh_queue, stored, broadcast, certified>>
vars == <<identity, history, batch, own_votes, pool_votes, pool_certs, bls,
          refresh_queue, stored, broadcast, certified, crashes, switches, pool_root, unsent,
          unbacked, lapses>>

History(votes, root) == [votes |-> votes, root |-> root]

\* The ops of the bls channel carry a vote and, for PushVote, the history to save.
Op(kind, vote, saved) == [kind |-> kind, vote |-> vote, saved |-> saved, id |-> identity]

-----------------------------------------------------------------------------
(* The event handler                                                         *)

\* Whether generate_vote_tx makes a message: a staked identity may lack an
\* authorized voter for a while (NonVoting), a spare never votes (HotSpare).
Signable(id) == IF id = Staked THEN BOOLEAN ELSE {FALSE}

\* The histories of the staked identity that are saved or in a PushVote under way
\* (a spare casts nothing), and the votes a saved history accounts for.
Saves(q) == {q[i].saved : i \in {i \in 1..Len(q) : q[i].kind = "PushVote"}}
AllSaves == stored[Staked] \union Saves(bls) \union Saves(batch)
Covers(h, vote) == vote \in h.votes \/ vote.slot < h.root

\* A vote that EventHandler may cast.
Fits(h, vote) == vote.slot > h.root /\ vote \notin h.votes /\ \A w \in h.votes : ~ Equivocation(vote, w)

\* insert_vote_and_create_bls_message: the vote is in the history even if no
\* message can be made of it, and then nothing is saved.
Cast(vote) ==
    LET h == [history EXCEPT !.votes = @ \union {vote}]
    IN  /\ Fits(history, vote)
        /\ history' = h
        /\ \E signed \in Signable(identity) :
              IF signed
              THEN /\ own_votes' = own_votes \union {vote}
                   /\ batch' = Append(batch, Op("PushVote", vote, h))
                   /\ UNCHANGED unsent
              ELSE /\ unsent' = unsent \union {vote}
                   /\ UNCHANGED <<own_votes, batch>>
        /\ UNCHANGED <<identity, poolVars, bls, serviceVars, crashes, switches, pool_root,
                       unbacked, lapses>>

\* refresh_votes, at a Standstill event, for one vote of the history: it may be
\* one that no message could be made of before, and that nothing saves.
RefreshVote(vote) ==
    /\ batch = <<>>
    /\ vote \in history.votes
    /\ TRUE \in Signable(identity)
    /\ batch' = <<Op("RefreshVote", vote, history)>>
    /\ unbacked' = IF \E h \in AllSaves : Covers(h, vote) THEN unbacked ELSE unbacked \union {vote}
    /\ UNCHANGED <<identity, history, own_votes, poolVars, bls, serviceVars, crashes, switches,
                   pool_root, unsent, lapses>>

\* VoteHistory::set_root, for a slot this node has voted on.
SetRoot(root) ==
    /\ root > history.root
    /\ root \in SlotsOf(history.votes)
    /\ history' = History({v \in history.votes : v.slot >= root}, root)
    /\ UNCHANGED <<identity, batch, own_votes, poolVars, bls, serviceVars, crashes, historyVars>>

\* The event loop sends the ops of an event, in their order, when there is room.
SendOp ==
    /\ batch # <<>>
    /\ Len(bls) < MaxBlsOps
    /\ bls' = Append(bls, Head(batch))
    /\ batch' = Tail(batch)
    /\ UNCHANGED <<identity, history, own_votes, poolVars, serviceVars, crashes, historyVars>>

\* VoteHistory::restore, or a new history when there is no file or it cannot be
\* loaded (handle_set_identity; restore_vote_history without require_vote_history).
Restored(id) == stored[id] \union {History({}, 0)}

\* Why history h, just restored, may lack votes that were saved or are about to be:
\* the file could not be loaded, or a PushVote will overwrite it later.
Lapses(id, h) ==
    IF id # Staked THEN {}
    ELSE {l \in {"LoadFailed"} : h \notin stored[id] /\ stored[id] # {}}
            \union {l \in {"Overtaken"} : Saves(bls') # {}}

\* Mutant of SentToPool: the pool is not told of the restored votes.
SentToPoolNothing(h, root) == {}

\* send_vote_history_to_consensus_pool: the votes at or above the history's root
\* and the root bank.
SentToPool(h, root) == {v \in h.votes : v.slot >= MaxOf(h.root, root)}

\* A history is restored, and the pool is told of its votes if they can be signed.
Restore(id, queued) ==
    \E h \in Restored(id), root \in Slots, signed \in Signable(id) :
        /\ identity' = id
        /\ history' = h
        /\ pool_root' = MaxOf(h.root, root)
        /\ own_votes' = IF signed THEN queued \union SentToPool(h, root) ELSE queued
        /\ unsent' = IF signed THEN {} ELSE h.votes
        /\ lapses' = lapses \union Lapses(id, h)

\* handle_set_identity, between two events: it does not wait for the ops of the
\* old identity that are still in the channel.
SetIdentity(id) ==
    /\ batch = <<>>
    /\ id # identity
    /\ switches < MaxSwitches /\ switches' = switches + 1
    /\ UNCHANGED <<batch, poolVars, bls, serviceVars, crashes, unbacked>>
    /\ Restore(id, own_votes)

-----------------------------------------------------------------------------
(* The consensus pool                                                        *)

ReceiveOwnVote(vote) ==
    /\ vote \in own_votes
    /\ own_votes' = own_votes \ {vote}
    /\ pool_votes' = pool_votes \union {vote}
    /\ UNCHANGED <<handlerVars, pool_certs, bls, serviceVars, crashes, historyVars>>

\* Together with votes of others the vote completes a certificate, which is sent
\* to the voting service unless the channel is full or the identity has no stake.
CompleteCertificate(vote) ==
    /\ vote \in (pool_votes \intersect Certifiable) \ pool_certs
    /\ pool_certs' = pool_certs \union {vote}
    /\ bls' = IF identity = Staked /\ Len(bls) < MaxBlsOps
              THEN Append(bls, Op("PushCertificate", vote, History({}, 0))) ELSE bls
    /\ UNCHANGED <<handlerVars, own_votes, pool_votes, serviceVars, crashes, historyVars>>

\* At a standstill the pool asks for its certificates to be sent again.
RefreshCertificate(vote) ==
    /\ vote \in pool_certs
    /\ identity = Staked /\ Len(bls) < MaxBlsOps
    /\ bls' = Append(bls, Op("RefreshCertificate", vote, History({}, 0)))
    /\ UNCHANGED <<handlerVars, own_votes, poolVars, serviceVars, crashes, historyVars>>

-----------------------------------------------------------------------------
(* The voting service                                                        *)

\* Mutant of SavedBy: the saved history is left as it is.
SavedByNever(op) == stored

\* Mutant of SavedBy: a history is stored only where there is none.
SavedByFirst(op) == IF stored[op.id] = {} THEN [stored EXCEPT ![op.id] = {op.saved}] ELSE stored

\* What is on disk after the store of a PushVote.
SavedBy(op) == [stored EXCEPT ![op.id] = {op.saved}]

\* handle_bls_op on a PushVote: save, then broadcast.  A broadcast may get lost.
PushVote ==
    /\ bls # <<>> /\ Head(bls).kind = "PushVote"
    /\ bls' = Tail(bls)
    /\ stored' = SavedBy(Head(bls))
    /\ broadcast' \in {broadcast, broadcast \union {Head(bls).vote}}
    /\ UNCHANGED <<handlerVars, own_votes, poolVars, refresh_queue, certified, crashes, historyVars>>

PushCertificate ==
    /\ bls # <<>> /\ Head(bls).kind = "PushCertificate"
    /\ bls' = Tail(bls)
    /\ certified' = certified \union {Head(bls).vote}
    /\ UNCHANGED <<handlerVars, own_votes, poolVars, refresh_queue, stored, broadcast, crashes, historyVars>>

\* RefreshVotes and RefreshCertificates go to the standstill queue.
QueueRefresh ==
    /\ bls # <<>> /\ Head(bls).kind \in {"RefreshVote", "RefreshCertificate"}
    /\ bls' = Tail(bls)
    /\ refresh_queue' = refresh_queue \union {<<Head(bls).kind, Head(bls).vote>>}
    /\ UNCHANGED <<handlerVars, own_votes, poolVars, stored, broadcast, certified, crashes, historyVars>>

\* maybe_handle_standstill_queue, for one message.
BroadcastRefresh(m) ==
    /\ m \in refresh_queue
    /\ IF m[1] = "RefreshVote"
       THEN broadcast' = broadcast \union {m[2]} /\ UNCHANGED certified
       ELSE certified' = certified \union {m[2]} /\ UNCHANGED broadcast
    /\ UNCHANGED <<handlerVars, own_votes, poolVars, bls, refresh_queue, stored, crashes, historyVars>>

\* StandstillRefreshQueue::prune, when a slot is finalized.
PruneQueue(s) ==
    /\ \E m \in refresh_queue : m[2].slot <= s
    /\ refresh_queue' = {m \in refresh_queue : m[2].slot > s}
    /\ UNCHANGED <<handlerVars, own_votes, poolVars, bls, stored, broadcast, certified, crashes, historyVars>>

-----------------------------------------------------------------------------
(* The process dies at any point and starts again with what is on disk       *)
(* (restore_vote_history); what was written before stays written.            *)

Crash ==
    /\ crashes < MaxCrashes
    /\ crashes' = crashes + 1
    /\ batch' = <<>> /\ bls' = <<>> /\ refresh_queue' = {}
    /\ pool_votes' = {} /\ pool_certs' = {}
    /\ Restore(Staked, {})
    /\ UNCHANGED <<stored, broadcast, certified, switches, unbacked>>

Init ==
    /\ identity = Staked
    /\ history = History({}, 0)
    /\ batch = <<>> /\ bls = <<>> /\ refresh_queue = {}
    /\ own_votes = {} /\ pool_votes = {} /\ pool_certs = {}
    /\ stored = [id \in Identities |-> {}]
    /\ broadcast = {} /\ certified = {}
    /\ crashes = 0 /\ switches = 0
    /\ pool_root = 0 /\ unsent = {} /\ unbacked = {} /\ lapses = {}

Next ==
    \/ \E v \in Candidates : \/ Cast(v) \/ RefreshVote(v)
                             \/ ReceiveOwnVote(v) \/ CompleteCertificate(v)
                             \/ RefreshCertificate(v)
    \/ \E s \in Slots : SetRoot(s) \/ PruneQueue(s)
    \/ SendOp \/ PushVote \/ PushCertificate \/ QueueRefresh
    \/ \E m \in refresh_queue : BroadcastRefresh(m)
    \/ \E id \in Identities : SetIdentity(id)
    \/ Crash

Spec == Init /\ [][Next]_vars

-----------------------------------------------------------------------------
(* Properties                                                                *)

\* A vote that has left the node is on disk, or its slot has been rooted there,
\* whatever crashed in between.  Exempt are the votes that were refreshed before any
\* save covered them, and nothing is said once a restored history has lapsed.
VotesDurable ==
    lapses = {} => \A v \in broadcast \ unbacked : \E h \in stored[Staked] : Covers(h, v)

\* No two votes that have left the node as votes exclude each other, however often
\* the process has died or changed its identity in between.  The exceptions are
\* those of VotesDurable.
NeverEquivocates ==
    lapses = {} => \A v, w \in broadcast \ unbacked : ~ Equivocation(v, w)

\* The pool knows every vote of the history at or above its root, or the vote is on
\* its way, also after a restart or a change of identity, unless no message could be
\* made of it: without them the pool would not raise SafeToNotar and SafeToSkip for
\* the slots this node has voted on.
PoolSeesOwnVotes ==
    identity = Staked => \A v \in history.votes \ unsent :
        v.slot >= pool_root => v \in own_votes \union pool_votes

\* What "Update and save the vote history" above add_vote says: a vote that has left
\* the node is on disk, as long as every history that was saved is restored.
VotesSaved == lapses = {} => \A v \in broadcast : \E h \in stored[Staked] : Covers(h, v)

\* What "Asserts here guard against vote equivocation" in add_vote says: no two votes
\* of the identity exclude each other, as long as its file can be loaded.
NoEquivocation ==
    "LoadFailed" \notin lapses => \A v, w \in broadcast \ unbacked : ~ Equivocation(v, w)

\* The same of the votes that have left the node in a certificate: the pool gets a
\* vote before it is saved.
NoCertifiedEquivocation ==
    lapses = {} => \A v, w \in (broadcast \union certified) \ unbacked : ~ Equivocation(v, w)

=============================================================================
