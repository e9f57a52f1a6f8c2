------------------------------ MODULE Sources -------------------------------
(***************************************************************************)
(* The polling hazard sources (internal/plugins/sources): RSO, IMGW, GIOS  *)
(* and GDDKiA read complete snapshots of what a provider announces, emit   *)
(* what is in their scope and cancel what has disappeared; GIOS-AQ reads a *)
(* history and lets its events run out.  The poll is modelled with the     *)
(* provider, which changes between two requests, with every way a response *)
(* can be unusable, with emits that fail, with the expiration worker that  *)
(* runs beside it, and with a shutdown at any point of it.                 *)
(*                                                                         *)
(* A warning is an identity with a version of its content.  Its geography, *)
(* keywords and severity only decide whether a version is in the scope of  *)
(* the source: Scope.  A response is what it lists, which identities are   *)
(* ambiguous in it, and whether it makes the snapshot complete.  GIOS reads*)
(* its register in pages, one request for each.                            *)
(***************************************************************************)
EXTENDS Naturals, FiniteSets

CONSTANTS
    Kinds,        \* source types
    Feeds,        \* regional feeds of one source (RSO voivodeships)
    Warnings,     \* provider identities
    Cover,        \* per warning: the feeds that list it
    Versions,     \* contents of a warning, naturals from 1; 0 is "not announced"
    Scope,        \* pairs <<warning, version>> the source's policy lets through
    Due,          \* per version: its expires_at, 0 for none
    PageIn,       \* external: per register and record, the page it is on
    PageSize,     \* pageSize: records of a full page
    MaxPages,     \* maxPages: pages one poll reads at most
    LastDay,      \* bound: the clock
    MaxEdits,     \* bound: changes of the provider
    MaxPolls      \* bound: polls

ASSUME SourcesAssumption ==
    /\ Kinds \subseteq {"rso", "imgw", "gios", "gddkia", "giosaq"}
    /\ Versions \subseteq Nat \ {0} /\ Scope \subseteq Warnings \X Versions
    /\ Cover \in [Warnings -> SUBSET Feeds] /\ Due \in [Versions -> Nat]
    /\ {LastDay, MaxEdits, MaxPolls, PageSize, MaxPages} \subseteq Nat

(* The provider fills a page before it begins the next one. *)
ASSUME PagesAreFilled ==
    /\ PageIn \in [SUBSET Warnings -> [Warnings -> Nat]]
    /\ \A register \in SUBSET Warnings : \A w \in register :
          \A n \in 0 .. PageIn[register][w] - 1 :
             Cardinality({x \in register : PageIn[register][x] = n}) >= PageSize

VARIABLES
    kind,         \* which source runs
    provider,     \* per warning: the version announced, 0 for none
    table,        \* events table: per warning its status and version
    poll,         \* the poll in progress
    day,          \* the clock
    edits, polls,
    quiet         \* history: nothing changed or failed since the poll began

sourceVars == <<kind, provider, table, poll, day, edits, polls, quiet>>

NoPoll == [step |-> "idle", left |-> {}, at |-> 0, got |-> {}, doubtful |-> {},
           unread |-> {}, complete |-> TRUE, keys |-> {}, todo |-> {}, gone |-> {},
           page |-> 0, served |-> {}, blank |-> {}, passed |-> {}]
NoRow == [status |-> "none", version |-> 0]

SourcesInit ==
    /\ kind \in Kinds
    /\ provider = [w \in Warnings |-> 0]
    /\ table = [w \in Warnings |-> NoRow]
    /\ poll = NoPoll
    /\ day = 1 /\ edits = 0 /\ polls = 0 /\ quiet = TRUE

-----------------------------------------------------------------------------
(* What one request may bring.  "got" is what could be read.                 *)

Register(f) == {w \in Warnings : provider[w] # 0 /\ f \in Cover[w]}
Listed(f) == {<<w, provider[w]>> : w \in Register(f)}

(* The request of GIOS asks for one page of the register. *)
Page(f, w) == IF kind = "gios" THEN PageIn[Register(f)][w] ELSE poll.page
OnPage(f) == {item \in Listed(f) : Page(f, item[1]) = poll.page}
FullPageEnds(f) ==                                              \* mutant
    kind = "gios" /\ Cardinality({w \in Register(f) : PageIn[Register(f)][w] = poll.page}) > PageSize

FullPage(f) ==
    kind = "gios" /\ Cardinality({w \in Register(f) : PageIn[Register(f)][w] = poll.page}) >= PageSize

TooManyPages(f) == FullPage(f) /\ poll.page + 1 = MaxPages

Entry(f) == {item[1] : item \in OnPage(f)}
Without(f, w) == {item \in OnPage(f) : item[1] # w}

Good(f) == [got |-> OnPage(f), doubtful |-> {}, unread |-> {}, blank |-> {},
            complete |-> TRUE, more |-> FullPage(f)]
Failed(f) == [Good(f) EXCEPT !.got = {}, !.complete = FALSE]
Unreadable(f, w, spoils) ==
    [Good(f) EXCEPT !.got = Without(f, w), !.unread = IF spoils THEN {} ELSE {w},
                    !.complete = ~ spoils]
Twice(f, w) == [Good(f) EXCEPT !.doubtful = {w}]

(* A document of the right form without the list decodes to no records. *)
Blank(f) ==
    [Good(f) EXCEPT !.got = {}, !.more = FALSE,
                    !.blank = {w \in Register(f) : Page(f, w) >= poll.page}]

(* RSO: a feed whose pagination does not match its items keeps the items; one *)
(* with neither agrees with itself.                                           *)
RsoFeed(f) == {Good(f), Failed(f), Blank(f), [Good(f) EXCEPT !.complete = FALSE]}

(* RSO, IMGW: an item that cannot be normalised makes the snapshot incomplete. *)
RsoNews(f) == {Unreadable(f, w, TRUE) : w \in Entry(f)}

ImgwFeed(f) == {Good(f), Failed(f)}
ImgwItem(f) == {Unreadable(f, w, TRUE) : w \in Entry(f)} \cup {Twice(f, w) : w \in Entry(f)}

(* GDDKiA, GIOS: an entry that cannot be normalised counts as out of scope; a *)
(* locality GIOS cannot geocode makes the snapshot incomplete.                *)
GddkiaFeed(f) == {Failed(f)} \cup {r \in {Good(f)} : r.got # {}}       \* empty: refused
GddkiaEntry(f) == {Unreadable(f, w, FALSE) : w \in Entry(f)}
GiosRegister(f) == {Good(f)}
GiosRecord(f) == {Unreadable(f, w, FALSE) : w \in Entry(f)}
GiosGeocode(f) == {Unreadable(f, w, TRUE) : w \in Entry(f)}

AmbiguousEntry(f) == {Twice(f, w) : w \in Entry(f)}

(* GIOS-AQ: the newest page of a history; nothing is concluded from absence. *)
GiosaqPage(f) == {Good(f), Failed(f)} \cup {Unreadable(f, w, FALSE) : w \in Entry(f)}

Responses(f) ==
    CASE kind = "rso" -> RsoFeed(f) \cup RsoNews(f)
      [] kind = "imgw" -> ImgwFeed(f) \cup ImgwItem(f)
      [] kind = "gddkia" -> GddkiaFeed(f) \cup GddkiaEntry(f) \cup AmbiguousEntry(f)
      [] kind = "gios" -> {Blank(f)} \cup
                            {r \in GiosRegister(f) \cup GiosRecord(f) \cup GiosGeocode(f)
                                     \cup AmbiguousEntry(f) : ~ TooManyPages(f)}
      [] kind = "giosaq" -> GiosaqPage(f)

-----------------------------------------------------------------------------
(* The poll.                                                                *)

(* RSO combines its regional feeds into one snapshot; the snapshots of the   *)
(* others, and each of IMGW's two feeds, stand for themselves.               *)
FeedsOf(k) == IF k = "rso" THEN Feeds ELSE {CHOOSE f \in Feeds : TRUE}

(* Run: the next poll begins; the clock is read here, by GDDKiA after the    *)
(* request.                                                                  *)
PollBegins ==
    /\ poll.step = "idle" /\ polls < MaxPolls
    /\ polls' = polls + 1
    /\ poll' = [NoPoll EXCEPT !.step = "fetch", !.left = FeedsOf(kind), !.at = day]
    /\ quiet' = TRUE
    /\ UNCHANGED <<kind, provider, table, day, edits>>

(* The policy of the source, applied to every readable item before identities *)
(* are compared.                                                              *)
InScope(items) == items \cap Scope
VersionsOf(items, w) == {item[2] : item \in {i \in items : i[1] = w}}

(* GIOS: a record moved to a later page by an insertion is listed twice. *)
Repeated(items) ==
    {w \in Warnings : /\ VersionsOf(InScope(poll.got), w) # {}
                      /\ VersionsOf(InScope(items), w) # {}}

(* History: records on a page already read, which were not on it then. *)
Passed(f) ==
    {item[1] : item \in {i \in Listed(f) \ poll.got : Page(f, i[1]) < poll.page}} \ poll.unread

(* One request of the poll; its answer is added to the combined snapshot, and  *)
(* a full page is followed by the next.  "served" is what any request listed,  *)
(* for the register what every request of the poll could find in it.           *)
Fetch(f) ==
    /\ poll.step = "fetch" /\ f \in poll.left
    /\ \E r \in Responses(f) :
          poll' = [poll EXCEPT !.left = IF r.more THEN @ ELSE @ \ {f},
                               !.page = @ + 1,
                               !.got = @ \cup r.got,
                               !.doubtful = @ \cup r.doubtful \cup Repeated(r.got),
                               !.unread = @ \cup r.unread,
                               !.complete = @ /\ r.complete,
                               !.at = IF kind = "gddkia" THEN day ELSE @,
                               !.served = IF kind # "gios" THEN @ \cup Listed(f)
                                          ELSE {i \in Listed(f) : poll.page = 0 \/ i \in @},
                               !.blank = @ \cup r.blank,
                               !.passed = @ \cup Passed(f)]
    /\ UNCHANGED <<kind, provider, table, day, edits, polls, quiet>>

(* RSO: two regional feeds disagree on the content of an identity. *)
RsoConflict(kept) == {w \in Warnings : Cardinality(VersionsOf(kept, w)) > 1}

(* The others: two entries in scope with one identity. *)
DuplicateIdentity(kept) == {w \in poll.doubtful : VersionsOf(kept, w) # {}}

Ambiguous(kept) == IF kind = "rso" THEN RsoConflict(kept) ELSE DuplicateIdentity(kept)

(* ingestCombined, ingestSnapshot, pollOnce: an ambiguous identity is not     *)
(* emitted and makes the snapshot incomplete.                                 *)
CombineUnfiltered ==                                            \* mutant
    LET kept == InScope(poll.got)
        ambiguous == Ambiguous(kept)
        keys == {item[1] : item \in poll.got} \ ambiguous
    IN  /\ poll.step = "fetch" /\ poll.left = {}
        /\ poll' = [poll EXCEPT !.step = "emit", !.keys = keys,
                        !.todo = {item \in kept : item[1] \in keys},
                        !.complete = @ /\ ambiguous = {}]
        /\ UNCHANGED <<kind, provider, table, day, edits, polls, quiet>>

Combine ==
    LET kept == InScope(poll.got)
        ambiguous == Ambiguous(kept)
        keys == {item[1] : item \in kept} \ ambiguous
    IN  /\ poll.step = "fetch" /\ poll.left = {}
        /\ poll' = [poll EXCEPT !.step = "emit", !.keys = keys,
                        !.todo = {item \in kept : item[1] \in keys},
                        !.complete = @ /\ ambiguous = {}]
        /\ UNCHANGED <<kind, provider, table, day, edits, polls, quiet>>

(* What the store makes of a report (EventStore!StatusAfter). *)
Lapsed(v, at) == Due[v] # 0 /\ Due[v] <= at
Stored(w, v) ==
    [status |-> IF table[w].status = "expired" /\ Lapsed(v, day) THEN "expired" ELSE "active",
     version |-> v]

EmitOne ==
    /\ poll.step = "emit"
    /\ \E item \in poll.todo :
          /\ poll' = [poll EXCEPT !.todo = @ \ {item}]
          /\ \/ table' = [table EXCEPT ![item[1]] = Stored(item[1], item[2])]
                /\ UNCHANGED quiet
             \/ UNCHANGED table /\ quiet' = FALSE          \* emit failed; next poll
    /\ UNCHANGED <<kind, provider, day, edits, polls>>

(* Reconcile: only after a complete snapshot; reads the active events of the  *)
(* source and leaves those alone whose expiry has passed at the poll's clock. *)
ReconcileReads ==
    /\ poll.step = "emit" /\ poll.todo = {}
    /\ poll.complete /\ kind # "giosaq"
    /\ poll' = [poll EXCEPT !.step = "cancel",
                    !.gone = {w \in Warnings \ poll.keys :
                                 /\ table[w].status = "active"
                                 /\ ~ Lapsed(table[w].version, poll.at)}]
    /\ UNCHANGED <<kind, provider, table, day, edits, polls, quiet>>

CancelOne ==
    /\ poll.step = "cancel"
    /\ \E w \in poll.gone :
          /\ poll' = [poll EXCEPT !.gone = @ \ {w}]
          /\ \/ table' = [table EXCEPT ![w].status = "cancelled"] /\ UNCHANGED quiet
             \/ UNCHANGED table /\ quiet' = FALSE
    /\ UNCHANGED <<kind, provider, day, edits, polls>>

PollSettled ==
    /\ poll.step = "cancel" /\ poll.gone = {}
    /\ poll' = [poll EXCEPT !.step = "settled"]
    /\ UNCHANGED <<kind, provider, table, day, edits, polls, quiet>>

(* The health report, then the wait for the next poll; a shutdown, an    *)
(* incomplete snapshot, or a request of GIOS that fails or is one page   *)
(* too many, ends the poll early.                                        *)
PollEnds ==
    /\ \/ poll.step = "settled"
       \/ poll.step = "emit" /\ poll.todo = {} /\ (~ poll.complete \/ kind = "giosaq")
       \/ poll.step \in {"fetch", "emit", "cancel"}        \* ctx.Err() # nil
    /\ poll' = NoPoll
    /\ UNCHANGED <<kind, provider, table, day, edits, polls, quiet>>

-----------------------------------------------------------------------------
(* The world beside the poll.                                               *)

ProviderEdits(w) ==
    /\ edits < MaxEdits
    /\ \E v \in (Versions \cup {0}) \ {provider[w]} :
          provider' = [provider EXCEPT ![w] = v]
    /\ edits' = edits + 1 /\ quiet' = FALSE
    /\ UNCHANGED <<kind, table, poll, day, polls>>

DayPasses ==
    /\ day < LastDay /\ day' = day + 1
    /\ UNCHANGED <<kind, provider, table, poll, edits, polls, quiet>>

(* ExpireDue, the expiration worker of the core. *)
Expire(w) ==
    /\ table[w].status = "active" /\ Lapsed(table[w].version, day)
    /\ table' = [table EXCEPT ![w].status = "expired"]
    /\ UNCHANGED <<kind, provider, poll, day, edits, polls, quiet>>

SourcesNext ==
    \/ PollBegins \/ Combine \/ EmitOne \/ ReconcileReads \/ CancelOne \/ PollSettled
    \/ PollEnds \/ DayPasses
    \/ \E f \in Feeds : Fetch(f)
    \/ \E w \in Warnings : ProviderEdits(w) \/ Expire(w)

SourcesSpec == SourcesInit /\ [][SourcesNext]_sourceVars

-----------------------------------------------------------------------------
(* "A failed regional query never looks like all warnings from that region    *)
(* disappeared" (rso/snapshot.go:27): a poll is about to cancel only warnings *)
(* of which no version in scope was served to it, except, for GDDKiA and GIOS,*)
(* one whose entry could not be normalised, which counts as out of scope, for *)
(* RSO and GIOS one that an answer without its list left out, and for GIOS one*)
(* that moved to a page already read.                                         *)
WithdrawnForCause ==
    poll.step = "cancel" =>
        \A w \in poll.gone :
            \/ VersionsOf(InScope(poll.served), w) = {}
            \/ kind \in {"gddkia", "gios"} /\ w \in poll.unread
            \/ kind \in {"rso", "gios"} /\ w \in poll.blank
            \/ kind = "gios" /\ w \in poll.passed

(* The provider announces the warning, in scope, on a feed the source reads.   *)
Announced(w) == <<w, provider[w]>> \in Scope /\ Cover[w] \cap FeedsOf(kind) # {}

(* After a complete poll in which nothing changed and nothing failed, the      *)
(* active events are what the provider announces in scope, at its version      *)
(* (events past their expiry belong to the expiration worker, and an answer    *)
(* without its list is taken for a register without records).                  *)
CompletePollSettles ==
    poll.step = "settled" /\ quiet =>
        \A w \in Warnings \ (poll.unread \cup poll.blank) :
            \/ Announced(w) /\ Lapsed(provider[w], day)
            \/ table[w].status = "active" /\ Lapsed(table[w].version, day)
            \/ /\ (table[w].status = "active") <=> Announced(w)
               /\ Announced(w) => table[w].version = provider[w]

(* What the reconciliation of GIOS says of itself (gios.go:309-310): it        *)
(* "requires the snapshot to be trusted in full".  No warning is cancelled     *)
(* because an answer came without its list.                                    *)
SnapshotTrusted ==
    poll.step = "cancel" =>
        \A w \in poll.gone \cap poll.blank : VersionsOf(InScope(poll.served), w) = {}

(* What FetchAwarie says of itself (gios/client.go:44-45): it "pages through"  *)
(* the register "and returns the complete matching record set".  No warning    *)
(* that every request found in the register is missing from what was read.     *)
RegisterReadWhole ==
    poll.step = "cancel" =>
        \A w \in poll.gone \cap poll.passed : VersionsOf(InScope(poll.served), w) = {}

=============================================================================
