----------------------------- MODULE ChurnHistory -----------------------------
(***************************************************************************)
(* How often and by whom files were changed: collect_impl of src/git.rs    *)
(* over the cached commit events and cached answers ("views") of           *)
(* src/git/churn_cache.rs.  Processes ask for different sets of files and  *)
(* numbers of commits while the branch moves and the repository's shallow  *)
(* and graft metadata change, share the two cache files and may crash.     *)
(* A path's churn is the set of commits that touched it, of which the      *)
(* report keeps the number, the authors and the first and last date.       *)
(***************************************************************************)
EXTENDS Naturals, Sequences, FiniteSets

CONSTANTS
  Collectors,   \* processes
  Paths, NoPath,
  Commits,
  Heads,        \* commits that HEAD has pointed to
  Histories,    \* states of the shallow and graft metadata
  Cacheable,    \* those of them that can be fingerprinted
  Log,          \* per head and history: its commits, children before parents
  Merge,        \* per history: the commits with more than one parent
  Root,         \* per history: the commits without a parent
  Raw,          \* per history and commit: the deltas against the first parent
  Found,        \* the same after the search for renames
  Requests,     \* sets of wanted files, limits and profiles, see Asked
  Nil,          \* no event, no answer
  MaxViews,     \* MAX_VIEWS
  MaxRuns, MaxChanges  \* bounds: collections started, changes of the repository

Asked == [wanted : SUBSET Paths \ {{}}, maxCommits : Nat, safe : BOOLEAN]

Deltas == [kind : {"added"}, old : {NoPath}, new : Paths]
            \cup [kind : {"deleted"}, old : Paths, new : {NoPath}]
            \cup [kind : {"renamed", "other"}, old : Paths, new : Paths]

ASSUME ChurnAssumption ==
  /\ Heads \subseteq Commits /\ Cacheable \subseteq Histories
  /\ \A c \in Heads : \A h \in Histories : Log[c][h] \in Seq(Commits)
  /\ \A h \in Histories : \A c \in Commits :
       Raw[h][c] \subseteq Deltas /\ Found[h][c] \subseteq Deltas
  /\ Requests \subseteq Asked
  /\ MaxViews \in Nat \ {0} /\ MaxRuns \in Nat /\ MaxChanges \in Nat

Mentions(d, name) == name \in {d.old, d.new}

\* renames(true) only pairs what was deleted with what was added.
ASSUME RenamesAssumption ==
  \A h \in Histories : \A c \in Commits :
    /\ \A d \in Raw[h][c] : d.kind # "renamed"
    /\ \A d \in Found[h][c] : d.kind = "renamed" =>
         /\ [kind |-> "deleted", old |-> d.old, new |-> NoPath] \in Raw[h][c]
         /\ [kind |-> "added", old |-> NoPath, new |-> d.new] \in Raw[h][c]
    /\ \A q \in Paths : (\E d \in Raw[h][c] : Mentions(d, q))
                           <=> \E d \in Found[h][c] : Mentions(d, q)

\* CommitEvent: a commit and its deltas, with renames or without.
Events == [deltas : SUBSET Deltas, resolved : BOOLEAN]

Answers == [Paths -> SUBSET Commits]

\* ViewIdentity; the limits that never differ between two runs are left out.
Identities == [head : Heads, history : Histories, wanted : SUBSET Paths,
               maxCommits : Nat]

Views == [identity : Identities, answer : Answers]

VARIABLES
  head, history,  \* the repository
  eventsFile,     \* [history, events]
  viewsFile,      \* the latest views, the last used one first
  at,             \* where a collector is
  request,
  opened,         \* the history when it opened the repository
  identity,       \* what its answer will be filed under
  events,         \* ChurnCache.events
  views,          \* ChurnCache.views
  told,           \* the answer that was returned as a complete one
  tainted,        \* history: a walk of another history than the fingerprinted
                  \* one, or a failed search for renames
  runs, changes   \* counters for the bounds

fileVars == <<eventsFile, viewsFile>>
repoVars == <<head, history, changes>>
collectorVars == <<identity, events, views>>
churnVars == <<repoVars, fileVars, collectorVars, at, request, opened, told,
               tainted, runs>>

NoEvents == [c \in Commits |-> Nil]
NoTouches == [p \in Paths |-> {}]

ChurnInit ==
  /\ head \in Heads /\ history \in Histories
  /\ eventsFile = [history |-> history, events |-> NoEvents]
  /\ viewsFile = <<>>
  /\ at = [p \in Collectors |-> "idle"]
  /\ request = [p \in Collectors |-> Nil]
  /\ opened = [p \in Collectors |-> Nil]
  /\ identity = [p \in Collectors |-> Nil]
  /\ events = [p \in Collectors |-> NoEvents]
  /\ views = [p \in Collectors |-> <<>>]
  /\ told = [p \in Collectors |-> Nil]
  /\ tainted = FALSE
  /\ runs = 0 /\ changes = 0

\* Commits, checkouts, a fetch that deepens or unshallows.
ChangeRepository ==
  /\ changes < MaxChanges /\ ~tainted
  /\ changes' = changes + 1
  /\ head' \in Heads /\ history' \in Histories
  /\ <<head', history'>> # <<head, history>>
  /\ UNCHANGED <<fileVars, collectorVars, at, request, opened, told,
                 tainted, runs>>

-----------------------------------------------------------------------------
\* ChurnCache::at, and the repository is opened and its HEAD peeled.
Start(p, r) ==
  /\ at[p] = "idle" /\ runs < MaxRuns
  /\ ~tainted   \* bound: no property speaks of what follows
  /\ runs' = runs + 1
  /\ at' = [at EXCEPT ![p] = "opened"]
  /\ request' = [request EXCEPT ![p] = r]
  /\ views' = [views EXCEPT ![p] = viewsFile]
  /\ events' = [events EXCEPT ![p] = NoEvents]
  /\ opened' = [opened EXCEPT ![p] = history]
  /\ identity' = [identity EXCEPT ![p] =
       [head |-> head, history |-> history, wanted |-> r.wanted,
        maxCommits |-> r.maxCommits]]
  /\ told' = [told EXCEPT ![p] = Nil]
  /\ UNCHANGED <<repoVars, fileVars, tainted>>

\* get_view: the position of the view, and the views with it in front.
ViewOf(vs, id) == {i \in DOMAIN vs : vs[i].identity = id}
Without(vs, id) ==
  LET kept[i \in 0..Len(vs)] ==
        IF i = 0 THEN <<>>
        ELSE IF vs[i].identity = id THEN kept[i - 1] ELSE Append(kept[i - 1], vs[i])
  IN kept[Len(vs)]

\* mutant: the history of the cached events is not looked at
LoadedEventsOfAnyHistory(h) == eventsFile.events

\* load_events
LoadedEvents(h) ==
  IF eventsFile.history = h THEN eventsFile.events ELSE NoEvents

\* history_fingerprint, then get_view or load_events.
Identify(p) ==
  /\ at[p] = "opened"
  /\ LET id == [identity[p] EXCEPT !.history = history]
         hits == IF history \in Cacheable THEN ViewOf(views[p], id) ELSE {}
     IN /\ identity' = [identity EXCEPT ![p] = id]
        /\ \/ /\ hits # {}
              /\ LET v == views[p][CHOOSE i \in hits : TRUE]
                 IN /\ told' = [told EXCEPT ![p] = v.answer]
                    /\ views' = [views EXCEPT ![p] = <<v>> \o Without(@, id)]
              /\ at' = [at EXCEPT ![p] = "answered"]
              /\ UNCHANGED events
           \/ /\ hits = {}
              /\ events' = [events EXCEPT ![p] =
                   IF history \in Cacheable THEN LoadedEvents(history) ELSE NoEvents]
              /\ at' = [at EXCEPT ![p] = "identified"]
              /\ UNCHANGED <<told, views>>
  /\ UNCHANGED <<repoVars, fileVars, request, opened, tainted, runs>>

-----------------------------------------------------------------------------
\* walk_history_oids without its deadline.
Walked(id, h) ==
  LET log == Log[id.head][h]
  IN IF id.maxCommits > 0 /\ Len(log) > id.maxCommits
     THEN SubSeq(log, 1, id.maxCommits) ELSE log

\* A path's name before a commit: `aliases`, from the wanted paths to their
\* names, where the code keeps the inverse.
Before(deltas, name) ==
  IF \E d \in deltas : d.kind = "renamed" /\ d.new = name
  THEN (CHOOSE d \in deltas : d.kind = "renamed" /\ d.new = name).old
  ELSE name

\* event_needs_rename_resolution
NeedsRenames(deltas, names) ==
  /\ \E d \in deltas : d.kind = "deleted"
  /\ \E d \in deltas : d.kind = "added" /\ \E w \in DOMAIN names : names[w] = d.new

\* event_for: a merge touches nothing; an event comes from the cache or else
\* from the diff of its trees.
Event(h, c, cached) ==
  CASE c \in Merge[h] -> [deltas |-> {}, resolved |-> TRUE]
    [] c \notin Merge[h] /\ cached # Nil -> cached
    [] OTHER -> [deltas |-> Raw[h][c], resolved |-> FALSE]

\* resolve_renames: a search that fails leaves the event as it is.
Resolved(h, c, e, names, failed) ==
  IF e.resolved \/ ~NeedsRenames(e.deltas, names) \/ c \in failed THEN e
  ELSE [deltas |-> Found[h][c], resolved |-> TRUE]

\* One commit of HistoryProcessor::process, with apply_event: `lost` cannot be
\* read, and the safe profile falls back on no diff and searches no renames.
ProcessCommit(h, c, safe, streamed, failed, lost, s) ==
  LET known == c \in streamed \/ (c \notin Merge[h] /\ s.events[c] # Nil)
      given == known \/ c \in Merge[h] \/ ~safe
      e == Event(h, c, s.events[c])
      needed == given /\ ~e.resolved /\ NeedsRenames(e.deltas, s.names)
      searched == needed /\ ~safe /\ ~s.partial
      r == IF needed /\ ~searched THEN e ELSE Resolved(h, c, e, s.names, failed)
      partial == s.partial \/ ~given \/ (needed /\ ~searched)
  IN IF ~given \/ (c = lost /\ ~known)
     THEN [s EXCEPT !.complete = FALSE, !.partial = partial]
     ELSE [names |-> [w \in DOMAIN s.names |-> Before(r.deltas, s.names[w])],
           acc |-> [q \in Paths |->
             IF /\ q \in DOMAIN s.names
                /\ \E d \in r.deltas : Mentions(d, s.names[q])
             THEN s.acc[q] \cup {c} ELSE s.acc[q]],
           events |-> IF partial THEN s.events ELSE [s.events EXCEPT ![c] = r],
           put |-> s.put \/ ~partial,
           missed |-> s.missed \/ (searched /\ c \in failed),
           complete |-> s.complete /\ ~(needed /\ ~searched),
           partial |-> partial]

\* HistoryProcessor::process for the first n of the walked commits.
Processed(p, h, n, streamed, failed, lost) ==
  LET log == Walked(identity[p], h)
      state[i \in 0..n] ==
        IF i = 0
        THEN [names |-> [w \in request[p].wanted |-> w], acc |-> NoTouches,
              events |-> events[p], put |-> FALSE, missed |-> FALSE, complete |-> TRUE,
              partial |-> FALSE]
        ELSE ProcessCommit(h, log[i], request[p].safe, streamed, failed, lost, state[i - 1])
  IN state[n]

\* put_view
Filed(vs, id, answer) ==
  LET all == <<[identity |-> id, answer |-> answer]>> \o Without(vs, id)
  IN SubSeq(all, 1, IF Len(all) > MaxViews THEN MaxViews ELSE Len(all))

\* Collected on the terms of one walk: what is kept of it and what is answered.
Keep(p, s, whole) ==
  /\ events' = [events EXCEPT ![p] =
       IF identity[p].history \in Cacheable THEN s.events ELSE @]
  /\ told' = [told EXCEPT ![p] = IF whole THEN s.acc ELSE Nil]
  /\ views' = [views EXCEPT ![p] =
       IF whole /\ identity[p].history \in Cacheable
       THEN Filed(@, identity[p], s.acc) ELSE @]

\* The walk, the batch of NativeGit and the processing, which the deadline or a
\* limit may cut after n commits.  A batch that fails streams nothing.  Which
\* metadata git2 goes by is external: those of the time when the repository was
\* opened, or those of now.
Collect(p) ==
  /\ at[p] = "identified"
  /\ \E h \in {opened[p], history} :
       LET log == Walked(identity[p], h)
           commits == {log[i] : i \in DOMAIN log}
       IN \E streamed \in {{}, commits \ (Merge[h] \cup Root[h])},
             failed \in SUBSET {c \in commits : Found[h][c] # Raw[h][c]},
             lost \in commits \cup {Nil},
             n \in 0..Len(log) :
            LET s == Processed(p, h, n, streamed, failed, lost)
            IN /\ Keep(p, s, n = Len(log) /\ s.complete /\ ~s.partial)
               /\ at' = [at EXCEPT ![p] = IF s.put THEN "collected" ELSE "answered"]
               /\ tainted' = (tainted \/ s.missed \/ h # identity[p].history)
  /\ UNCHANGED <<repoVars, fileVars, identity, request, opened, runs>>

\* The collection is over.
Forget(p) ==
  /\ at' = [at EXCEPT ![p] = "idle"]
  /\ request' = [request EXCEPT ![p] = Nil]
  /\ opened' = [opened EXCEPT ![p] = Nil]
  /\ identity' = [identity EXCEPT ![p] = Nil]
  /\ events' = [events EXCEPT ![p] = NoEvents]
  /\ views' = [views EXCEPT ![p] = <<>>]
  /\ told' = [told EXCEPT ![p] = Nil]

\* ChurnCache::save: each file that is dirty is replaced as a whole, or not.
Save(p) ==
  /\ at[p] \in {"answered", "collected"}
  /\ \/ /\ at[p] = "collected" /\ identity[p].history \in Cacheable
        /\ eventsFile' = [history |-> identity[p].history, events |-> events[p]]
     \/ UNCHANGED eventsFile
  /\ \/ identity[p].history \in Cacheable /\ viewsFile' = views[p]
     \/ UNCHANGED viewsFile
  /\ Forget(p)
  /\ UNCHANGED <<repoVars, tainted, runs>>

ChurnStep(p) ==
  \/ \E r \in Requests : Start(p, r)
  \/ Identify(p) \/ Collect(p) \/ Save(p)

ChurnNext == ChangeRepository \/ \E p \in Collectors : ChurnStep(p)

ChurnSpec == ChurnInit /\ [][ChurnNext]_churnVars

-----------------------------------------------------------------------------
\* What the answer is by definition, path by path: its name before each commit,
\* going back through the renames, and the commits that mention that name.
Expected(id) ==
  LET log == Log[id.head][id.history]
      depth == IF id.maxCommits > 0 /\ Len(log) > id.maxCommits
               THEN id.maxCommits ELSE Len(log)
      counts(i) == log[i] \notin Merge[id.history]
      deltas(i) == Found[id.history][log[i]]
      names[i \in 0..depth] ==
        IF i = 0 THEN [w \in id.wanted |-> w]
        ELSE [w \in id.wanted |-> IF counts(i) THEN Before(deltas(i), names[i - 1][w])
                                   ELSE names[i - 1][w]]
  IN [q \in Paths |->
        IF q \notin id.wanted THEN {}
        ELSE {log[i] : i \in {j \in 1..depth :
                counts(j) /\ \E d \in deltas(j) : Mentions(d, names[j - 1][q])}}]

(***************************************************************************)
(* The types of all variables.                                             *)
(***************************************************************************)
ChurnTypeOK ==
  /\ head \in Heads /\ history \in Histories
  /\ eventsFile \in [history : Histories, events : [Commits -> Events \cup {Nil}]]
  /\ \A i \in DOMAIN viewsFile : viewsFile[i] \in Views
  /\ Len(viewsFile) <= MaxViews
  /\ \A p \in Collectors :
       /\ at[p] \in {"idle", "opened", "identified", "answered", "collected"}
       /\ request[p] \in Requests \cup {Nil}
       /\ opened[p] \in Histories \cup {Nil}
       /\ identity[p] \in Identities \cup {Nil}
       /\ events[p] \in [Commits -> Events \cup {Nil}]
       /\ \A i \in DOMAIN views[p] : views[p][i] \in Views
       /\ told[p] \in Answers \cup {Nil}
  /\ tainted \in BOOLEAN
  /\ runs \in 0..MaxRuns /\ changes \in 0..MaxChanges

(***************************************************************************)
(* An answer that is returned as complete is the one of the repository's   *)
(* head and history as they were fingerprinted: whatever sets of files,    *)
(* limits, profiles and histories filled the caches before, and whichever  *)
(* other process wrote them last.  The exceptions are a history that       *)
(* changed between the fingerprint and the walk, and a search for renames  *)
(* that failed, which is not recorded as an omission.                      *)
(***************************************************************************)
AnswersAreFresh ==
  ~tainted => \A p \in Collectors :
    told[p] # Nil => told[p] = Expected(identity[p])

(***************************************************************************)
(* On disk every view is the answer to its own identity, no identity has   *)
(* two views, and every event belongs to the history it is filed under.    *)
(***************************************************************************)
CachedChurnTrue ==
  ~tainted =>
    /\ \A i \in DOMAIN viewsFile :
         /\ viewsFile[i].answer = Expected(viewsFile[i].identity)
         /\ \A j \in DOMAIN viewsFile :
              viewsFile[i].identity = viewsFile[j].identity => i = j
    /\ \A c \in Commits : eventsFile.events[c] # Nil =>
         LET h == eventsFile.history
             e == eventsFile.events[c]
         IN e.deltas = CASE c \in Merge[h] -> {}
                         [] c \notin Merge[h] /\ e.resolved -> Found[h][c]
                         [] OTHER -> Raw[h][c]

(***************************************************************************)
(* Churn that is answered or filed is that of the history it is told of.   *)
(***************************************************************************)
ChurnSound ==
  /\ ChurnTypeOK
  /\ AnswersAreFresh
  /\ CachedChurnTrue
===============================================================================
