-------------------------- MODULE MCVotingService --------------------------
(***************************************************************************)
(* Votes for the voting service: a block of slot 1 and a skip of it, which *)
(* exclude each other, and a vote in slot 2, where a root makes the        *)
(* history forget slot 1.                                                  *)
(***************************************************************************)
EXTENDS VotingService

b1 == [slot |-> 1, id |-> 1]
MCBlocks == {b1}
FirstVotes == {BlockVote("Notarize", b1), SlotVote("Skip", 1)}
RootVotes == FirstVotes \union {SlotVote("Skip", 2)}
OneSkip == {SlotVote("Skip", 1)}
NoSpare == {}
OneSpare == {"spare"}

\* Bounds: a behaviour ends when a restored history has lapsed, and the identity is
\* changed only in behaviours without a vote in slot 2.
VotesIn(q) == {q[i].vote : i \in 1..Len(q)}
VotesSeen == UNION {broadcast, own_votes, pool_votes, VotesIn(bls), VotesIn(batch), history.votes,
                    UNION {h.votes : h \in AllSaves}}
InBounds == lapses = {} /\ (switches > 0 => SlotsOf(VotesSeen) \subseteq {1})
=============================================================================
