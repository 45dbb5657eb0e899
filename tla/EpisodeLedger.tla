--------------------------- MODULE EpisodeLedger ---------------------------
(***************************************************************************)
(* Canonical episodes of one tenant: ingest_episode of Talk2DataService    *)
(* over the episode table, whose unique index covers tenant and            *)
(* idempotency key.                                                        *)
(*                                                                         *)
(* As everywhere in the SQLAlchemy stores, an object enters the dict that  *)
(* all threads read before its row is committed, and stays there when the  *)
(* row is refused.                                                         *)
(***************************************************************************)
EXTENDS Naturals, Sequences, SequencesExt

CONSTANTS
    EpisodeIds,        \* episode_id, one for each episode that is built
    EpisodeKeys,       \* idempotency keys
    NoKey,             \* a delivery may carry none
    Checksums,         \* digests of source_id and raw_content
    Deliverers,        \* requests that may run at the same time
    MaxEpisodeCrashes  \* bound on process crashes

VARIABLES
    episodes,        \* store.episodes: a dict, kept in insertion order
    episodeRows,     \* the table: the stored episodes
    delivering,      \* what each request is doing
    answers,         \* history: the answers that were found by, or created with, a key
    interleaved,     \* history: two deliveries were once under way together
    episodeCrashes

vars == <<episodes, episodeRows, delivering, answers, interleaved,
          episodeCrashes>>

\* What deduplication reads of a CanonicalEpisode.
Episode == [id : EpisodeIds, key : EpisodeKeys \cup {NoKey}, checksum : Checksums]

Idle == [pc |-> "idle"]

Init ==
    /\ episodes = <<>>
    /\ episodeRows = {}
    /\ delivering = [h \in Deliverers |-> Idle]
    /\ answers = {}
    /\ interleaved = FALSE
    /\ episodeCrashes = 0

\* find_episode_by_idempotency and find_episode_by_checksum scan the dict: the
\* places of the episodes they accept.
WithKey(key) == {i \in DOMAIN episodes : key # NoKey /\ episodes[i].key = key}
WithChecksum(checksum) == {i \in DOMAIN episodes : episodes[i].checksum = checksum}

\* The first of them.
IsFirst(i, places) == i \in places /\ \A j \in places : i <= j

Answer(key, episode, created) ==
    answers' = IF key = NoKey THEN answers
               ELSE answers \cup {[key |-> key, id |-> episode.id, created |-> created]}

Busy == \E h \in Deliverers : delivering[h].pc # "idle"

Unused(id) ==
    /\ \A i \in DOMAIN episodes : episodes[i].id # id
    /\ \A e \in episodeRows : e.id # id
    /\ \A h \in Deliverers : delivering[h].pc # "idle" => delivering[h].episode.id # id

\* Mutant: the checksum counts before the key.
RepeatByChecksum(h, key, checksum) ==
    /\ delivering[h].pc = "idle"
    /\ \E i \in DOMAIN episodes :
          /\ \/ IsFirst(i, WithChecksum(checksum))
             \/ WithChecksum(checksum) = {} /\ IsFirst(i, WithKey(key))
          /\ IF WithKey(key) = {} THEN UNCHANGED answers
             ELSE Answer(key, episodes[i], FALSE)
    /\ interleaved' = (interleaved \/ Busy)
    /\ UNCHANGED <<episodes, episodeRows, delivering, episodeCrashes>>

\* A delivery of what is already in memory is answered with it; the key counts
\* before the checksum.
Repeat(h, key, checksum) ==
    /\ delivering[h].pc = "idle"
    /\ \E i \in DOMAIN episodes :
          \/ IsFirst(i, WithKey(key)) /\ Answer(key, episodes[i], FALSE)
          \/ /\ WithKey(key) = {} /\ IsFirst(i, WithChecksum(checksum))
             /\ UNCHANGED answers
    /\ interleaved' = (interleaved \/ Busy)
    /\ UNCHANGED <<episodes, episodeRows, delivering, episodeCrashes>>

\* A delivery that nothing in memory answers builds an episode.
Build(h, id, key, checksum) ==
    /\ delivering[h].pc = "idle"
    /\ WithKey(key) = {} /\ WithChecksum(checksum) = {}
    /\ Unused(id)
    /\ delivering' = [delivering EXCEPT ![h] =
         [pc |-> "add", episode |-> [id |-> id, key |-> key, checksum |-> checksum]]]
    /\ interleaved' = (interleaved \/ Busy)
    /\ UNCHANGED <<episodes, episodeRows, answers, episodeCrashes>>

\* add_episode, its dict entry.
AddEpisode(h) ==
    /\ delivering[h].pc = "add"
    /\ episodes' = Append(episodes, delivering[h].episode)
    /\ delivering' = [delivering EXCEPT ![h].pc = "commit"]
    /\ UNCHANGED <<episodeRows, answers, interleaved, episodeCrashes>>

\* Its row, then the source health, the projection and the answer; or the
\* unique index refuses the row and the delivery fails.
CommitEpisode(h) ==
    LET new == delivering[h].episode
    IN /\ delivering[h].pc = "commit"
       /\ IF new.key # NoKey /\ \E e \in episodeRows : e.key = new.key
          THEN UNCHANGED <<episodeRows, answers>>
          ELSE episodeRows' = episodeRows \cup {new} /\ Answer(new.key, new, TRUE)
       /\ delivering' = [delivering EXCEPT ![h] = Idle]
       /\ UNCHANGED <<episodes, interleaved, episodeCrashes>>

\* The process dies and reloads the rows, in an order the query leaves open.
RestartEpisodes ==
    /\ episodeCrashes < MaxEpisodeCrashes
    /\ episodes' \in SetToSeqs(episodeRows)
    /\ delivering' = [h \in Deliverers |-> Idle]
    /\ episodeCrashes' = episodeCrashes + 1
    /\ UNCHANGED <<episodeRows, answers, interleaved>>

Next ==
    \/ RestartEpisodes
    \/ \E h \in Deliverers :
          \/ \E key \in EpisodeKeys \cup {NoKey}, checksum \in Checksums :
                \/ Repeat(h, key, checksum)
                \/ \E id \in EpisodeIds : Build(h, id, key, checksum)
          \/ AddEpisode(h)
          \/ CommitEpisode(h)

Spec == Init /\ [][Next]_vars

-----------------------------------------------------------------------------
(* Properties.                                                             *)

\* Of deliveries that race with one key, one creates an episode.
CreatedOnce ==
    \A a, b \in answers : a.created /\ b.created /\ a.key = b.key => a.id = b.id

\* A sender that repeats a delivery, whatever became of the first attempts, is
\* answered with the episode it was answered with before, as long as no two
\* deliveries overlap.
RetriesAgree ==
    ~interleaved =>
        \A a, b \in answers : a.key = b.key => a.id = b.id

\* However a delivery is raced, retried or cut short, its key has one episode.
DeliveriesAgree == CreatedOnce /\ RetriesAgree

=============================================================================
