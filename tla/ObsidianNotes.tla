--------------------------- MODULE ObsidianNotes ---------------------------
(***************************************************************************)
(* Obsidian notes that become governed memory: ObsidianNoteValidator and   *)
(* promote_obsidian, which ingests the note as an episode, promotes a      *)
(* memory from it and relates the memory to what the note links to, each   *)
(* in a transaction of its own.  A process that dies leaves what it        *)
(* stored, and whoever promoted the note may do it again.                  *)
(*                                                                         *)
(* One promotion runs at a time: races of two deliveries of one episode    *)
(* are in EpisodeLedger, of two promotions of one memory in MemoryLedger.  *)
(***************************************************************************)
EXTENDS Naturals, FiniteSets

CONSTANTS
    Notes,          \* notes as submitted, records: see Validate and Promote
    OurTenant,      \* tenant of the principals
    People,         \* principals
    RolesOf,        \* [People -> SUBSET roles]
    GivenKeys,      \* idempotency keys a request may bring
    NoKey,          \* ... or none
    MaxPromotions   \* bound: promotions begun

VARIABLES
    episodes,    \* stored episodes: the key and the note, which is raw_content
    memories,    \* stored memories
    related,     \* stored relationships: the memory and the link
    promoting,   \* the promotion in progress
    begun,       \* history: the notes, with the keys that were given for them
    done,        \* history: promotions that were answered, with their memory
    promotions

vars == <<episodes, memories, related, promoting, begun, done, promotions>>

Authoritative == {"approved", "published"}

Resting == [step |-> "rest"]

Init ==
    /\ episodes = {}
    /\ memories = {}
    /\ related = {}
    /\ promoting = Resting
    /\ begun = {}
    /\ done = {}
    /\ promotions = 0

-----------------------------------------------------------------------------
(* The validator.                                                          *)

\* A note that has no readable frontmatter has this one error.
Errors(note) ==
    IF note.form # "valid" THEN {"frontmatter"}
    ELSE (IF note.body = "" THEN {"empty"} ELSE {})
         \cup (IF note.status \in Authoritative /\ ~note.approved THEN {"unapproved"} ELSE {})

Validate(note) ==
    [valid |-> Errors(note) = {},
     authoritative |-> Errors(note) = {} /\ note.status \in Authoritative /\ note.approved]

-----------------------------------------------------------------------------
(* The promotion.                                                          *)

Has(person, roles) == RolesOf[person] \cap roles # {}

\* Mutant: the key names the note, whatever its version.
KeyByNote(note, given) == IF given # NoKey THEN given ELSE <<note.id>>

Key(note, given) == IF given # NoKey THEN given ELSE <<note.id, note.version>>

\* parse_authoritative, the tenant and the roles: promote_obsidian admits a
\* publisher, ingest_episode asks for another role as well.
Admitted(note, person) ==
    /\ Validate(note).authoritative
    /\ note.tenant = OurTenant
    /\ Has(person, {"reviewer", "publisher", "governance_admin"})
    /\ Has(person, {"submitter", "reviewer", "governance_admin"})

\* ingest_episode: the episode of the key, or that of the text, or a new one.
Ingest(note, person, given) ==
    /\ promoting = Resting /\ promotions < MaxPromotions
    /\ Admitted(note, person)
    /\ LET keyed == {e \in episodes : e.key = Key(note, given)}
           equal == {e \in episodes : e.note = note}
           new == [key |-> Key(note, given), note |-> note]
       IN \E episode \in (IF keyed # {} THEN keyed ELSE IF equal # {} THEN equal ELSE {new}) :
             /\ episodes' = episodes \cup {episode}
             /\ promoting' = [step |-> "memory", note |-> note, by |-> person, given |-> given,
                              episode |-> episode]
    /\ begun' = begun \cup {[note |-> note, given |-> given]}
    /\ promotions' = promotions + 1
    /\ UNCHANGED <<memories, related, done>>

\* What canonical_checksum covers of a memory: not its status.
Checksum(m) == <<m.episode, m.by, m.body, m.links, m.version, m.subject>>

\* _build_memory: the episode that the key led to must be of the same source and
\* no more sensitive, and a published memory needs a publisher.
Refused ==
    \/ promoting.note.source # promoting.episode.note.source
    \/ promoting.note.level < promoting.episode.note.level
    \/ promoting.note.status = "published" /\ ~Has(promoting.by, {"publisher", "governance_admin"})

\* _mark_conflicts: a current memory on the same subject is disputed with it.
Rivals(m) == {o \in memories : /\ o.subject = m.subject
                               /\ o.status \in Authoritative \cup {"conflicting"}}

\* promote_memory: a memory with the checksum in that episode is returned as it
\* is, whatever its status; a new one is stored, and disputed with its rivals.
Remember ==
    LET note == promoting.note
        built == [episode |-> promoting.episode, by |-> promoting.by, body |-> note.body,
                  links |-> note.links, version |-> note.version, subject |-> note.subject,
                  status |-> note.status]
        same == {m \in memories : Checksum(m) = Checksum(built)}
        disputed(m) == [m EXCEPT !.status = "conflicting"]
    IN /\ promoting.step = "memory" /\ ~Refused
       /\ memories' = IF same # {} THEN memories
                      ELSE IF Rivals(built) = {} THEN memories \cup {built}
                      ELSE (memories \ Rivals(built)) \cup {disputed(m) : m \in Rivals(built) \cup {built}}
       /\ promoting' = [step |-> "links", note |-> note, by |-> promoting.by,
                        given |-> promoting.given, memory |-> Checksum(built), left |-> note.links]
       /\ UNCHANGED <<episodes, related, begun, done, promotions>>

\* A memory that is refused leaves its episode stored.
RefuseMemory ==
    /\ promoting.step = "memory" /\ Refused
    /\ promoting' = Resting
    /\ UNCHANGED <<episodes, memories, related, begun, done, promotions>>

\* One relationship for each wiki link; a projection that fails is recorded and
\* does not end the promotion.
Relate ==
    /\ promoting.step = "links"
    /\ \E link \in promoting.left :
          /\ related' = related \cup {[memory |-> promoting.memory, link |-> link]}
          /\ promoting' = [promoting EXCEPT !.left = @ \ {link}]
    /\ UNCHANGED <<episodes, memories, begun, done, promotions>>

Return ==
    /\ promoting.step = "links" /\ promoting.left = {}
    /\ done' = done \cup {[note |-> promoting.note, by |-> promoting.by,
                           given |-> promoting.given, memory |-> promoting.memory]}
    /\ promoting' = Resting
    /\ UNCHANGED <<episodes, memories, related, begun, promotions>>

\* The process dies, or a write fails, between two transactions.
BreakOffPromotion ==
    /\ promoting # Resting
    /\ promoting' = Resting
    /\ UNCHANGED <<episodes, memories, related, begun, done, promotions>>

Next ==
    \/ \E note \in Notes, person \in People, given \in GivenKeys \cup {NoKey} :
          Ingest(note, person, given)
    \/ Remember \/ RefuseMemory \/ Relate \/ Return \/ BreakOffPromotion

Spec == Init /\ [][Next]_vars

-----------------------------------------------------------------------------
(* Properties.                                                             *)

\* The key that a promotion stands under, as documented: a given one, or that of
\* the version of the note.
StandsUnder(b) == IF b.given = NoKey THEN <<b.note.id, b.note.version>> ELSE b.given

\* The key of a promotion never stood for another note.
OwnKey(d) == \A b \in begun : StandsUnder(b) = StandsUnder(d) => b.note = d.note

\* A promotion that was answered left a memory with the body of its note and all
\* its links, whose episode holds that very note, however often it was broken
\* off and repeated, as long as authors give each text a version of its own.
NotesAreTraceable ==
    \A d \in done : OwnKey(d) =>
        \E m \in memories :
            /\ Checksum(m) = d.memory
            /\ m.body = d.note.body /\ m.by = d.by /\ m.episode.note = d.note
            /\ \A link \in d.note.links : [memory |-> d.memory, link |-> link] \in related

=============================================================================
