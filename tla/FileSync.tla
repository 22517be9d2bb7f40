------------------------------ MODULE FileSync ------------------------------
(***************************************************************************)
(* Two-way sync of files (src/sync/sync.c, src/runtime/sync.c): a pass     *)
(* scans the source directory and the sync directory, compares each file   *)
(* with the manifest of the last pass, and copies, moves to the trash, or  *)
(* keeps both sides as conflict copies; then the manifest is written.      *)
(* The user edits both sides at any time, and the program may die between  *)
(* any two steps.  Passes of the sync worker and of "/sync now" can overlap *)
(* in the code, and are followed one at a time.                            *)
(*                                                                         *)
(* The content of a file is the set of the edits it holds; {} is no file.  *)
(* The copies of a conflict have one new name on both sides, and are       *)
(* scanned too when the file lies in an included directory.  SQLite files   *)
(* take the way of DbBackup.                                               *)
(***************************************************************************)
EXTENDS Integers, Sequences, FiniteSets

CONSTANTS
  Bases,        \* the files
  InDirectory(_),\* the file lies in an included directory
  IsDb(_),      \* is_db_rel: the name ends in ".db"
  Copies,       \* bound on the conflicts
  MaxEdits      \* bound on the edits

VARIABLES
  local, remote,  \* [file -> content]
  manifest,       \* [file -> the contents of both sides at the last pass]
  trash,          \* trash files: <<file, content>>
  trash_rows,     \* the ones that have a row in the manifest
  pass,           \* the pass under way
  conflicts,      \* the conflicts met, which name their copies
  edits,          \* the edits made
  forgiven,       \* history: edits that the user removed, made to a file under a pass, or
                  \* replaced by a new file; and edits whose trash expired
  quiet           \* history: nothing was edited since the last whole pass began

vars == <<local, remote, manifest, trash, trash_rows, pass, conflicts, edits, forgiven, quiet>>
sides == <<local, remote>>
bin == <<trash, trash_rows>>

Files == Bases \X (0..Copies)
Scanned == {f \in Files : f[2] = 0 \/ InDirectory(f[1])}
CopyOf(f) == <<f[1], conflicts>>

NoEntry == [found |-> FALSE, local |-> {}, remote |-> {}]
Idle == [pc |-> "idle", todo |-> {}, local |-> <<>>, remote |-> <<>>, file |-> <<>>, ops |-> <<>>,
         clean |-> TRUE]

Init ==
  /\ local = [f \in Files |-> IF f[2] = 0 THEN {0} ELSE {}]
  /\ remote = [f \in Files |-> {}]
  /\ manifest = [f \in Files |-> NoEntry]
  /\ trash = {} /\ trash_rows = {} /\ pass = Idle
  /\ conflicts = 0 /\ edits = 0 /\ forgiven = {} /\ quiet = FALSE

----------------------------------------------------------------------------
(* sync_pair: what is to be done about a file, as a sequence of steps on    *)
(* the disk with the write of the manifest at the end.                      *)

Changed(now, old) == now # old

Up == <<"up", "refresh_remote", "put">>
Down == <<"down", "refresh_local", "put">>

\* create_conflict: the remote file beside the local one, the local file beside the
\* remote one, under one name.
Conflict(l, r) ==
  (IF r # {} THEN <<"copy_down">> ELSE <<>>) \o (IF l # {} THEN <<"copy_up">> ELSE <<>>)
  \o <<"put">>

TrashLocal == <<"trash_local", "unlink_local", "row", "gone_local", "put">>
TrashRemote == <<"trash_remote", "unlink_remote", "row", "gone_remote", "put">>

\* A .db file that is not SQLite: never overwritten from the remote side.
PairDb(l, r, old) ==
  LET lc == Changed(l, old.local) rc == Changed(r, old.remote) IN
  CASE l # {} /\ r # {} /\ l # r /\ (~old.found \/ rc) -> Conflict(l, r)
    [] l # {} /\ ~(r # {} /\ l # r /\ (~old.found \/ rc)) /\ (r = {} \/ lc) -> Up
    [] l = {} /\ r # {} -> Conflict(l, r)
    [] OTHER -> <<"put">>

PairPlain(l, r, old) ==
  LET lc == Changed(l, old.local) rc == Changed(r, old.remote) IN
  CASE l # {} /\ r # {} -> IF l = r THEN <<"put">>
                           ELSE IF lc /\ rc THEN Conflict(l, r)
                           ELSE IF lc THEN Up ELSE IF rc THEN Down ELSE <<"put">>
    [] l # {} /\ r = {} -> IF old.remote # {} /\ rc /\ ~lc THEN TrashLocal
                           ELSE IF old.remote # {} /\ rc /\ lc THEN Conflict(l, r)
                           ELSE Up
    [] l = {} /\ r # {} -> IF old.local # {} /\ lc /\ ~rc THEN TrashRemote
                           ELSE IF old.local # {} /\ lc /\ rc THEN Conflict(l, r)
                           ELSE Down
    [] OTHER -> <<"put">>

\* Mutant: the remote file is taken for unchanged when the local one has changed.
sync_pair_stale(f, l, r, old) ==
  IF IsDb(f[1]) THEN PairDb(l, r, old)
  ELSE IF l # {} /\ r # {} /\ l # r /\ Changed(l, old.local) THEN Up
  ELSE PairPlain(l, r, old)

\* Mutant: a conflict is met again as long as the sides differ.
sync_pair_again(f, l, r, old) ==
  IF IsDb(f[1]) THEN PairDb(l, r, old)
  ELSE IF l # {} /\ r # {} /\ l # r /\ Changed(l, old.remote) THEN Conflict(l, r)
  ELSE PairPlain(l, r, old)

sync_pair(f, l, r, old) == IF IsDb(f[1]) THEN PairDb(l, r, old) ELSE PairPlain(l, r, old)

----------------------------------------------------------------------------
(* A pass: morph_sync_once. *)

\* scan_side, twice: the content of every file is hashed.
Scan ==
  /\ pass.pc = "idle"
  /\ LET here == {f \in Scanned : local[f] # {} \/ remote[f] # {}} IN
       pass' = [Idle EXCEPT !.pc = "pairs", !.todo = here,
                                      !.local = [f \in here |-> local[f]],
                                      !.remote = [f \in here |-> remote[f]]]
  /\ UNCHANGED <<conflicts, sides, manifest, bin, edits, forgiven, quiet>>

\* The next file: what is to be done goes by what was scanned.
TakePair ==
  /\ pass.pc = "pairs" /\ pass.todo # {}
  /\ \E f \in pass.todo :
       LET ops == sync_pair(f, pass.local[f], pass.remote[f], manifest[f]) IN
       /\ conflicts' = conflicts + (IF \E i \in DOMAIN ops : ops[i] \in {"copy_down", "copy_up"} THEN 1 ELSE 0)
       /\ conflicts' <= Copies
       /\ pass' = [pass EXCEPT !.pc = "file", !.todo = @ \ {f}, !.file = f, !.ops = ops]
  /\ UNCHANGED <<sides, manifest, bin, edits, forgiven, quiet>>

\* copy_atomic and copy_remote_to_local_atomic: a copy goes to a staging file that is
\* renamed into place.
LocalAfter(op, f) ==
  CASE op = "down" -> [local EXCEPT ![f] = remote[f]]
    [] op = "copy_down" -> [local EXCEPT ![CopyOf(f)] = remote[f]]
    [] op = "unlink_local" -> [local EXCEPT ![f] = {}]
    [] OTHER -> local
RemoteAfter(op, f) ==
  CASE op = "up" -> [remote EXCEPT ![f] = local[f]]
    [] op = "copy_up" -> [remote EXCEPT ![CopyOf(f)] = local[f]]
    [] op = "unlink_remote" -> [remote EXCEPT ![f] = {}]
    [] OTHER -> remote

\* manifest_trash and manifest_tombstone.
manifest_trash(f) == trash_rows \cup {t \in trash : t[1] = f}

\* refresh_file and refresh_remote_backend_file: what the pass believes of a side is
\* read again after a copy.
Refreshed(op, f) ==
  [pass EXCEPT
     !.ops = Tail(@),
     !.pc = IF Len(pass.ops) = 1 THEN "pairs" ELSE @,
     !.local[f] = CASE op = "refresh_local" -> local[f] [] op = "gone_local" -> {} [] OTHER -> @,
     !.remote[f] = CASE op = "refresh_remote" -> remote[f] [] op = "gone_remote" -> {} [] OTHER -> @]

\* manifest_put writes what the pass believes, not what the disk holds.
manifest_put(f) ==
  [manifest EXCEPT ![f] = [found |-> TRUE, local |-> pass.local[f], remote |-> pass.remote[f]]]

\* A step on the disk, or on the manifest.
FileStep ==
  LET f == pass.file op == Head(pass.ops) IN
  /\ pass.pc = "file" /\ Len(pass.ops) > 0
  /\ local' = LocalAfter(op, f)
  /\ remote' = RemoteAfter(op, f)
  /\ trash' = CASE op = "trash_local" -> trash \cup {<<f, local[f]>>}
                [] op = "trash_remote" -> trash \cup {<<f, remote[f]>>}
                [] OTHER -> trash
  /\ trash_rows' = IF op = "row" THEN manifest_trash(f) ELSE trash_rows
  /\ pass' = Refreshed(op, f)
  /\ manifest' = IF op = "put" THEN manifest_put(f) ELSE manifest
  /\ UNCHANGED <<conflicts, edits, forgiven, quiet>>

Ids(contents) == UNION contents
Everywhere(l, m, t) == Ids({l[f] : f \in Files} \cup {m[f] : f \in Files} \cup {x[2] : x \in t})

\* cleanup_trash at the end of a pass: what is older than the retention goes for good.
PassEnds ==
  /\ pass.pc = "pairs" /\ pass.todo = {}
  /\ \E expired \in {{}, trash_rows} :
       /\ trash' = trash \ expired /\ trash_rows' = trash_rows \ expired
       /\ forgiven' = forgiven \cup (Ids({x[2] : x \in expired}) \ Everywhere(local, remote, trash'))
  /\ pass' = Idle
  /\ quiet' = pass.clean
  /\ UNCHANGED <<conflicts, sides, manifest, edits>>

\* A step fails and ends the pass, or the program dies.
PassBreaks ==
  /\ pass.pc # "idle"
  /\ pass' = Idle /\ quiet' = FALSE
  /\ UNCHANGED <<conflicts, sides, manifest, bin, edits, forgiven>>

----------------------------------------------------------------------------
(* The user. *)

\* A file is edited, made or removed on a side.  What is done to a file that a pass
\* has scanned and not yet finished may be undone by the pass.
UnderPass(f) ==
  pass.pc # "idle" /\ f \in Scanned /\ (f \in pass.todo \/ pass.file = f)

Disturbed == quiet' = FALSE /\ pass' = [pass EXCEPT !.clean = FALSE]

Edit(f) ==
  /\ edits < MaxEdits /\ edits' = edits + 1
  /\ \/ local' = [local EXCEPT ![f] = @ \cup {edits + 1}] /\ UNCHANGED remote
     \/ remote' = [remote EXCEPT ![f] = @ \cup {edits + 1}] /\ UNCHANGED local
  /\ forgiven' = forgiven \cup (IF UnderPass(f) THEN {edits + 1} ELSE {})
                          \cup (IF manifest[f].found /\ {} \in {local[f], remote[f]}
                                THEN local[f] \cup remote[f] ELSE {})
  /\ Disturbed
  /\ UNCHANGED <<conflicts, manifest, bin>>

Remove(f) ==
  /\ edits < MaxEdits /\ edits' = edits + 1
  /\ \/ local[f] # {} /\ local' = [local EXCEPT ![f] = {}] /\ UNCHANGED remote
     \/ remote[f] # {} /\ remote' = [remote EXCEPT ![f] = {}] /\ UNCHANGED local
  /\ forgiven' = forgiven \cup {edits + 1}
                           \cup IF UnderPass(f) THEN local[f] \cup remote[f]
                               ELSE (local[f] \cup remote[f]) \ Everywhere(local', remote', trash)
  /\ Disturbed
  /\ UNCHANGED <<conflicts, manifest, bin>>

\* morph_sync_restore_trash, "/sync restore": the file is put back, over what the user
\* has there, and the manifest takes both sides as they are: a remote file that was
\* never copied counts as seen, and the next local edit goes over it.
morph_sync_restore_trash ==
  /\ \E t \in trash_rows :
       LET f == t[1] IN
       /\ local' = [local EXCEPT ![f] = t[2]]
       /\ manifest' = [manifest EXCEPT ![f] = [found |-> TRUE, local |-> t[2], remote |-> remote[f]]]
       /\ trash_rows' = trash_rows \ {t}
       /\ forgiven' = forgiven \cup local[f] \cup remote[f] \cup (IF UnderPass(f) THEN t[2] ELSE {})
  /\ Disturbed
  /\ UNCHANGED <<conflicts, remote, trash, edits>>

PassStep == TakePair \/ FileStep \/ PassEnds

Next ==
  \/ Scan \/ PassStep \/ PassBreaks
  \/ \E b \in Bases : Edit(<<b, 0>>) \/ Remove(<<b, 0>>)
  \/ morph_sync_restore_trash

Spec == Init /\ [][Next]_vars
----------------------------------------------------------------------------
(* Properties. *)

\* Sync loses nothing: every edit is in some file of some side, conflict copies
\* included, or in the trash, unless the user removed it, made it while a pass had
\* the file, or let its trash expire.
NothingLost == 1..edits \subseteq forgiven \cup Everywhere(local, remote, trash)

\* Sync comes to rest: after a whole pass that nothing disturbed, a file that both sides
\* hold and that is included by its own name needs nothing but its manifest entry, also
\* when the pass met a conflict.  (A conflict copy in an included directory is a new file
\* with two contents and conflicts again; a file changed on one side and removed on the
\* other conflicts first and comes back in the pass after; a .db file that exists only
\* remotely conflicts in every pass.)
RestsInStep ==
  LET f == pass'.file IN
  quiet /\ pass.pc = "pairs" /\ pass'.pc = "file" /\ f[2] = 0 /\ local[f] # {} /\ remote[f] # {}
    => pass'.ops = <<"put">>

ComesToRest == [][RestsInStep]_vars
============================================================================
