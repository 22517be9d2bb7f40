---------------------------- MODULE Preferences ----------------------------
(***************************************************************************)
(* What the program remembers of what the user says (agent/memory.c,       *)
(* persistence/preferences.c, the memory_preference tool of                *)
(* agent/tools/runtime_query.c): standing preferences, kept as revisions   *)
(* with a scope, and facts, kept with the facts they superseded.  A        *)
(* message is first recorded as an item of the model history and only then *)
(* accepted, so messages of several sessions are accepted in any order; a  *)
(* message may be accepted again when its turn is retried.                 *)
(*                                                                         *)
(* A text is a sequence of clauses, a clause the set of the marks that the *)
(* recognisers look for in it.                                             *)
(***************************************************************************)
EXTENDS Naturals, Sequences, FiniteSets, FiniteSetsExt, SequencesExt

CONSTANTS
  Sessions, Owner, Project, \* Owner[s] and Project[s]: who uses s, and where
  Strangers,      \* users that try to use a session of someone else
  Texts,          \* what users say
  Settings,       \* [scope, key, value] of the commands and of the model's tool calls
  Legacy,         \* [session, key, value, source] facts of an older version
  MaxItems, MaxEvents, MaxRevisions, MaxFacts, \* bounds
  Deletes,        \* sessions that may be deleted
  Extracted       \* sessions with background extraction

VARIABLES
  present,            \* sessions
  items,              \* model_history_items with role 'user': [id, session, text, when]
  last_item,          \* AUTOINCREMENT of model_history_items
  memory_scopes,      \* [owner, project, migrated] or NoScope
  memory_preferences, \* revisions, by id
  memory_facts,       \* rows, by id
  memory_profiles,    \* the rendered profile: a set of <<key, value>>
  memory_candidates,  \* advisory records: <<session, key, value>>
  accepted,           \* items whose input was accepted
  clock               \* history: counts what users say and order

prefVars == <<present, items, last_item, memory_scopes, memory_preferences, memory_facts,
              memory_profiles, memory_candidates, accepted, clock>>

NoScope == [owner |-> "", project |-> "", migrated |-> FALSE]
Unset == "unset"
Marks(text) == UNION Range(text)
PreferenceKeys == {"response.language", "response.detail", "user.preferred_name"}

PrefInit ==
  /\ present = Sessions /\ items = {} /\ last_item = 0
  /\ memory_scopes = [s \in Sessions |-> NoScope]
  /\ memory_preferences = <<>>
  /\ memory_facts = SetToSeq({[session |-> l.session, key |-> l.key, value |-> l.value,
                               source |-> l.source, current |-> TRUE, superseded_by |-> 0]
                              : l \in Legacy})
  /\ memory_profiles = [s \in Sessions |-> {}]
  /\ memory_candidates = {} /\ accepted = {} /\ clock = 0

-----------------------------------------------------------------------------
(* The recognisers.                                                        *)

memory_preference_request_scope(text) ==
  LET m == Marks(text) IN
  IF m \cap {"question", "translation", "quotation", "temporary"} # {} THEN ""
  ELSE IF "session" \in m THEN "session"
  ELSE IF "project" \in m THEN "project"
  ELSE IF "standing" \in m THEN "personal" ELSE ""

memory_language_directive(clause) ==
  IF clause \cap {"question", "negation", "translation", "quotation"} # {} \/ "directive" \notin clause
     \/ ("Chinese" \in clause) = ("English" \in clause)
  THEN "" ELSE IF "Chinese" \in clause THEN "Chinese" ELSE "English"

\* The last clause that is a directive counts.
memory_explicit_language(text) ==
  LET found == {i \in DOMAIN text : memory_language_directive(text[i]) # ""} IN
  IF Marks(text) \cap {"question", "quotation"} # {} \/ found = {} THEN ""
  ELSE memory_language_directive(text[Max(found)])

\* The preference keys under their other names.
preference_key(key) ==
  CASE key \in {"preferred_language", "language"} -> "response.language"
    [] key \in {"response_style", "style"} -> "response.detail"
    [] key = "preferred_name" -> "user.preferred_name"
    [] OTHER -> key

Setting(scope, key, value) == [scope |-> scope, key |-> key, value |-> value]

\* The settings memory_accept_preferences makes of a text, in this order.
memory_accept_preferences(text) ==
  LET m == Marks(text)
      scope == memory_preference_request_scope(text)
      language == memory_explicit_language(text)
  IN (IF "name" \in text[1]
      THEN <<Setting(IF scope = "" THEN "personal" ELSE scope, "user.preferred_name", "Bo")>>
      ELSE <<>>)
     \o (IF scope # "" /\ language # "" THEN <<Setting(scope, "response.language", language)>>
         ELSE <<>>)
     \o (IF scope # "" /\ m \cap {"question", "negation", "quotation"} = {}
            /\ ("concise" \in m) # ("detailed" \in m)
         THEN <<Setting(scope, "response.detail", IF "concise" \in m THEN "concise" ELSE "detailed")>>
         ELSE <<>>)

-----------------------------------------------------------------------------
(* The store of preferences.                                               *)

Target(b, s, scope) == CASE scope = "personal" -> "" [] scope = "project" -> b.project
                         [] OTHER -> ToString(s)
\* A row for session s, whose row of memory_scopes is b.
Revision(b, s, scope, key, value, token, order, origin, when) ==
  [owner |-> b.owner, scope |-> scope, target |-> Target(b, s, scope), key |-> key,
   value |-> value, session |-> s, token |-> token, source_order |-> order, origin |-> origin,
   when |-> when]

\* COALESCE(MAX(id), 0) + 1 over the items that are there now (only users' items are
\* followed: items of the assistant move all later ids alike).
NextOrder == 1 + IF items = {} THEN 0 ELSE Max({i.id : i \in items})

\* The row with the same UNIQUE columns, if there is one.
Same(prefs, r) ==
  {i \in DOMAIN prefs : /\ prefs[i].owner = r.owner /\ prefs[i].scope = r.scope
                        /\ prefs[i].target = r.target /\ prefs[i].key = r.key
                        /\ prefs[i].session = r.session /\ prefs[i].token = r.token}

\* One more revision; a second one for the same event is not stored, and is an
\* error (stale) when its value differs.
Stored(prefs, b, r) ==
  LET dup == Same(prefs, r) IN
  IF r.scope = "project" /\ b.project = "" THEN [prefs |-> prefs, ok |-> FALSE]
  ELSE IF dup = {} THEN [prefs |-> Append(prefs, r), ok |-> TRUE]
  ELSE [prefs |-> prefs, ok |-> \A i \in dup : prefs[i].value = r.value]
\* The languages under their other names.
Canonical(key, value) ==
  CASE key = "response.language" /\ value \in {"zh", "zhongwen"} -> "Chinese"
    [] key = "response.language" /\ value \in {"en", "yingwen"} -> "English"
    [] OTHER -> value
\* A form that numbers revisions in the order they are committed.
preference_set_as_committed(prefs, b, s, set, token, order, when) ==
  Stored(prefs, b, Revision(b, s, set.scope, preference_key(set.key),
                            Canonical(preference_key(set.key), set.value), token,
                            Len(prefs) + 1, "explicit", when))
preference_set(prefs, b, s, set, token, order, when) ==
  Stored(prefs, b, Revision(b, s, set.scope, preference_key(set.key),
                            Canonical(preference_key(set.key), set.value), token,
                            order, "explicit", when))

Visible(s, r) ==
  /\ r.owner = memory_scopes[s].owner
  /\ \/ r.scope = "personal"
     \/ r.scope = "project" /\ r.target = memory_scopes[s].project
     \/ r.scope = "session" /\ r.target = ToString(s)
Rank(r) == (IF r.origin = "explicit" THEN 10 ELSE 0)
           + (CASE r.scope = "session" -> 3 [] r.scope = "project" -> 2 [] OTHER -> 1)
Newer(i, j) ==
  LET a == memory_preferences[i] b == memory_preferences[j]
  IN a.source_order > b.source_order \/ (a.source_order = b.source_order /\ i > j)
Rival(i, j) ==
  LET a == memory_preferences[i] b == memory_preferences[j]
  IN a.scope = b.scope /\ a.target = b.target /\ a.key = b.key
\* The value of a key: of the latest revisions of each scope, tombstones left out,
\* an explicit one before a migrated one, then the narrowest scope.
ResolvedBy(s, key, Later(_, _)) ==
  LET shown == {i \in DOMAIN memory_preferences :
                  memory_preferences[i].key = key /\ Visible(s, memory_preferences[i])}
      latest == {i \in shown : ~\E j \in shown : Rival(i, j) /\ Later(j, i)}
      set == {i \in latest : memory_preferences[i].value # Unset}
  IN IF set = {} THEN Unset
     ELSE memory_preferences[CHOOSE i \in set : \A j \in set :
            Rank(memory_preferences[i]) >= Rank(memory_preferences[j])].value
preference_render(s, key) == ResolvedBy(s, key, Newer)

-----------------------------------------------------------------------------
(* Facts.                                                                  *)

Current(facts, s, key) ==
  {i \in DOMAIN facts : facts[i].session = s /\ facts[i].key = key /\ facts[i].current}
\* The same value refreshes the row, another one supersedes it.
memory_write_fact(facts, s, key, value, source) ==
  LET old == Current(facts, s, key)
      new == [session |-> s, key |-> key, value |-> value, source |-> source,
              current |-> TRUE, superseded_by |-> 0]
  IN IF \E i \in old : facts[i].value = value
     THEN [i \in DOMAIN facts |-> IF i \in old THEN [facts[i] EXCEPT !.source = source] ELSE facts[i]]
     ELSE Append([i \in DOMAIN facts |->
                    IF i \in old THEN [facts[i] EXCEPT !.current = FALSE,
                                                       !.superseded_by = Len(facts) + 1]
                    ELSE facts[i]], new)
memory_refresh_profile(facts, s) ==
  {<<facts[i].key, facts[i].value>> : i \in {j \in DOMAIN facts : facts[j].session = s /\ facts[j].current}}
\* The places an anchor finds in the text.
memory_try_anchors(text) == Marks(text) \cap {"Oslo", "Rome"}
memory_capture_hot_path(facts, s, text) ==
  FoldLeft(LAMBDA f, v : memory_write_fact(f, s, "location", v, text), facts,
           SetToSeq(memory_try_anchors(text)))

-----------------------------------------------------------------------------
(* What users do.                                                          *)

\* preference_bind: a session keeps the owner it had.
Bound(s, user) ==
  IF memory_scopes[s] = NoScope
  THEN [owner |-> user, project |-> Project[s], migrated |-> FALSE]
  ELSE [memory_scopes[s] EXCEPT !.project = Project[s]]
preference_bind(s, user) ==
  /\ s \in present
  /\ memory_scopes[s].owner \in {"", user}
  /\ memory_scopes' = [memory_scopes EXCEPT ![s] = Bound(s, user)]

\* A turn binds the session and records the message.
RecordInput(s, text) ==
  /\ Cardinality(items) < MaxItems /\ last_item < MaxItems /\ clock < MaxEvents
  /\ preference_bind(s, Owner[s])
  /\ last_item' = last_item + 1 /\ clock' = clock + 1
  /\ items' = items \cup {[id |-> last_item + 1, session |-> s, text |-> text, when |-> clock + 1]}
  /\ UNCHANGED <<present, memory_preferences, memory_facts, memory_profiles, memory_candidates,
                 accepted>>

\* A session of another user is refused: the turn does not begin.
BindRefused(s, user) ==
  /\ s \in present /\ user # memory_scopes[s].owner /\ memory_scopes[s] # NoScope
  /\ UNCHANGED prefVars

\* memory_migrate_preferences, once for each session: every old preference becomes a
\* candidate, one that its own source proves becomes a revision of the session.
Verified(f) ==
  /\ preference_key(f.key) = "response.language"
  /\ memory_explicit_language(f.source) = f.value
  /\ memory_preference_request_scope(f.source) # ""
Migrating(s) ==
  IF memory_scopes[s].migrated THEN {}
  ELSE {i \in DOMAIN memory_facts :
          /\ memory_facts[i].session = s /\ memory_facts[i].current
          /\ memory_facts[i].key \in {"preferred_language", "response_style", "preferred_name"}}
memory_migrate_preferences(s) ==
  LET rows == SetToSortSeq(Migrating(s), LAMBDA a, b : a < b)
      Add(p, i) ==
        LET f == memory_facts[i]
            r == Revision(memory_scopes[s], s, "session", preference_key(f.key), f.value,
                          "legacy:" \o ToString(i), 0, "legacy", 0)
        IN IF Verified(f) /\ Same(p, r) = {} THEN Append(p, r) ELSE p
  IN FoldLeft(Add, memory_preferences, rows)

\* memory_accept_input: the migration and the settings of the text in one
\* transaction, then the facts.
memory_accept_input(it) ==
  LET s == it.session
      Add(acc, set) ==
        IF ~acc.ok THEN acc
        ELSE preference_set(acc.prefs, memory_scopes[s], s, set, "history:" \o ToString(it.id),
                            it.id, it.when)
      done == FoldLeft(Add, [prefs |-> memory_migrate_preferences(s), ok |-> TRUE],
                       memory_accept_preferences(it.text))
  IN /\ Len(memory_preferences) < MaxRevisions /\ Len(memory_facts) < MaxFacts
     /\ s \in present /\ memory_scopes[s] # NoScope
     /\ accepted' = accepted \cup {it.id}
     /\ IF ~done.ok
        THEN UNCHANGED <<memory_preferences, memory_scopes, memory_facts, memory_profiles,
                         memory_candidates>>
        ELSE /\ memory_preferences' = done.prefs
             /\ memory_scopes' = [memory_scopes EXCEPT ![s].migrated = TRUE]
             /\ memory_candidates' = memory_candidates \cup
                  {<<s, memory_facts[i].key, memory_facts[i].value>> : i \in Migrating(s)}
             /\ memory_facts' = memory_capture_hot_path(memory_facts, s, it.text)
             /\ memory_profiles' = IF memory_try_anchors(it.text) = {} THEN memory_profiles
                                   ELSE [memory_profiles EXCEPT ![s] =
                                           memory_refresh_profile(memory_facts', s)]
     /\ UNCHANGED <<present, items, last_item, clock>>

\* The first time, and again after a retry.
AcceptInput == \E it \in items : it.id \notin accepted /\ memory_accept_input(it)
RetryInput == \E it \in items : it.id \in accepted /\ memory_accept_input(it)

\* The model asks to remember something: its evidence must quote the latest message
\* of the session, whose own scope must be the one asked for.
preference_exec(s, set) ==
  LET mine == {i \in items : i.session = s}
      last == CHOOSE i \in mine : \A j \in mine : i.id >= j.id
      done == preference_set(memory_preferences, memory_scopes[s], s, set,
                             "history:" \o ToString(last.id), last.id, last.when)
  IN /\ s \in present /\ mine # {} /\ Len(memory_preferences) < MaxRevisions
     /\ last.id \in accepted
     /\ memory_preference_request_scope(last.text) = set.scope
     /\ done.ok /\ memory_preferences' = done.prefs
     /\ UNCHANGED <<present, items, last_item, memory_scopes, memory_facts, memory_profiles,
                    memory_candidates, accepted, clock>>

\* /memory set and /memory unset: an event of its own.
runtime_preference_set(s, set) ==
  /\ clock < MaxEvents /\ Len(memory_preferences) < MaxRevisions
  /\ preference_bind(s, Owner[s])
  /\ LET done == preference_set(memory_preferences, Bound(s, Owner[s]), s, set, "pref:" \o ToString(clock + 1),
                                NextOrder, clock + 1)
     IN done.ok /\ memory_preferences' = done.prefs
  /\ clock' = clock + 1
  /\ UNCHANGED <<present, items, last_item, memory_facts, memory_profiles, memory_candidates,
                 accepted>>

\* What the model extracts in the background is only a candidate.
memory_apply_llm_envelope(s, key, value) ==
  /\ s \in present /\ memory_scopes[s] # NoScope
  /\ memory_candidates' = memory_candidates \cup {<<s, key, value>>}
  /\ memory_profiles' = [memory_profiles EXCEPT ![s] = memory_refresh_profile(memory_facts, s)]
  /\ UNCHANGED <<present, items, last_item, memory_scopes, memory_preferences, memory_facts,
                 accepted, clock>>

\* A tombstone for each preference the session has of its own.
preference_clear_session(s) ==
  LET own == {[key |-> r.key, owner |-> r.owner] : r \in {q \in Range(memory_preferences) :
                                             q.scope = "session" /\ q.target = ToString(s)}}
      Stone(p, k) == Append(p, [Revision(memory_scopes[s], s, "session", k.key, Unset,
                                         "clear:" \o ToString(clock + 1), NextOrder, "explicit",
                                         clock + 1) EXCEPT !.owner = k.owner])
  IN FoldLeft(Stone, memory_preferences, SetToSeq(own))
Without(facts, s) == [i \in DOMAIN facts |-> IF facts[i].session = s
                        THEN [facts[i] EXCEPT !.session = 0, !.current = FALSE] ELSE facts[i]]
\* The row of a session: one that has none becomes the local user's, in no project.
memory_prepare_session(s) ==
  IF memory_scopes[s] = NoScope THEN [owner |-> "local", project |-> "", migrated |-> FALSE]
  ELSE memory_scopes[s]
memory_clear(s, all) ==
  /\ clock < MaxEvents /\ Len(memory_preferences) < MaxRevisions
  /\ s \in present
  /\ clock' = clock + 1
  /\ memory_scopes' = [memory_scopes EXCEPT ![s] = [memory_prepare_session(s) EXCEPT !.migrated = TRUE]]
  /\ memory_preferences' = IF all THEN preference_clear_session(s) ELSE memory_preferences
  /\ memory_facts' = Without(memory_facts, s)
  /\ memory_profiles' = [memory_profiles EXCEPT ![s] = {}]
  /\ memory_candidates' = IF all THEN {c \in memory_candidates : c[1] # s} ELSE memory_candidates
  /\ UNCHANGED <<present, items, last_item, accepted>>

\* Everything that refers to the session goes with it; the revisions stay.
session_delete(s) ==
  /\ s \in Deletes /\ s \in present
  /\ present' = present \ {s}
  /\ items' = {i \in items : i.session # s}
  /\ memory_scopes' = [memory_scopes EXCEPT ![s] = NoScope]
  /\ memory_facts' = Without(memory_facts, s)
  /\ memory_profiles' = [memory_profiles EXCEPT ![s] = {}]
  /\ memory_candidates' = {c \in memory_candidates : c[1] # s}
  /\ UNCHANGED <<last_item, memory_preferences, accepted, clock>>

\* /memory of the terminal, where the user is the local one; its other forms only read.
cmd_memory(s) ==
  /\ Owner[s] = "local"
  /\ \/ \E set \in Settings : runtime_preference_set(s, set)
     \/ \E all \in BOOLEAN : memory_clear(s, all)

PrefNext ==
  \/ \E s \in Sessions :
       \/ \E t \in Texts : RecordInput(s, t)
       \/ \E u \in Strangers : BindRefused(s, u)
       \/ \E set \in Settings : preference_exec(s, set)
       \/ s \in Extracted /\ memory_apply_llm_envelope(s, "preferred_language", "English")
       \/ cmd_memory(s)
       \/ session_delete(s)
  \/ AcceptInput \/ RetryInput

-----------------------------------------------------------------------------
(* The context of the next model request.                                  *)

\* Sizes in units of 64 bytes: the least budget when there are preferences, the
\* sentence that introduces them, and a line.
LeastBudget == 8
Preamble == 4
\* The lines of memory_build_context_impl: preferences, the language first, then the
\* current facts that are not preferences; cut at the budget.
Context(s, budget) ==
  LET Lines(keys) == {l \in {<<k, preference_render(s, k)>> : k \in keys} : l[2] # Unset}
      prefs == SetToSeq(Lines({"response.language"})) \o SetToSeq(Lines({"response.detail"}))
               \o SetToSeq(Lines({r.key : r \in Range(memory_preferences)}
                                 \ {"response.language", "response.detail"}))
      facts == SetToSeq({f \in memory_refresh_profile(memory_facts, s) :
                          preference_key(f[1]) \notin PreferenceKeys})
      room == IF prefs # <<>> /\ budget < LeastBudget THEN LeastBudget ELSE budget
      lines == prefs \o facts
      fits == IF room > Preamble THEN room - Preamble ELSE 0
  IN SubSeq(lines, 1, IF Len(lines) < fits THEN Len(lines) ELSE fits)

\* The revision a user spoke later counts, whatever was committed first.
SpokenLater(i, j) ==
  LET a == memory_preferences[i] b == memory_preferences[j]
  IN a.when > b.when \/ (a.when = b.when /\ i > j)

\* As long as no session was deleted, the effective value of every preference is
\* the one its owner asked for last in the narrowest scope that has one, also when
\* an older message is accepted after a newer one or twice, when the model's tool
\* repeats what the recogniser found, and after unset or clear; no session shows a
\* preference of another user; the request shows the effective language however
\* small the budget is, and no fact under the name of a preference.
PreferencesObeyed ==
  \A s \in present : memory_scopes[s] # NoScope =>
    /\ present = Sessions => \A key \in {r.key : r \in Range(memory_preferences)} :
         preference_render(s, key) = ResolvedBy(s, key, SpokenLater)
    /\ memory_scopes[s].owner = Owner[s]
    /\ LET shown == Context(s, 1)
           language == preference_render(s, "response.language")
       IN /\ language # Unset => <<"response.language", language>> \in Range(shown)
          /\ \A l \in Range(shown) : preference_key(l[1]) \in PreferenceKeys =>
               l = <<l[1], preference_render(s, l[1])>>

\* A fact that is not current was superseded by a later one with another value; a
\* session has one current fact per name; its profile lists exactly the current ones.
FactsLinked ==
  /\ \A i \in DOMAIN memory_facts :
       LET f == memory_facts[i] IN
       f.session # 0 /\ ~f.current =>
         /\ f.superseded_by > i /\ f.superseded_by <= Len(memory_facts)
         /\ memory_facts[f.superseded_by].key = f.key /\ memory_facts[f.superseded_by].session = f.session
         /\ memory_facts[f.superseded_by].value # f.value
  /\ \A s \in Sessions :
       /\ \A i \in DOMAIN memory_facts : Cardinality(Current(memory_facts, s, memory_facts[i].key)) <= 1
       /\ memory_profiles[s] \in {{}, memory_refresh_profile(memory_facts, s)}

MemoryFaithful == PreferencesObeyed /\ FactsLinked

\* docs/memory-preferences.md: "The newest revision of a key replaces the previous
\* revision within its scope."
NewestRevisionReplaces ==
  \A s \in present : memory_scopes[s] # NoScope => \A r \in Range(memory_preferences) :
    preference_render(s, r.key) = ResolvedBy(s, r.key, SpokenLater)
=============================================================================
