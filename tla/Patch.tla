-------------------------------- MODULE Patch --------------------------------
(***************************************************************************)
(* The patch engine, agent/patch.c, behind the tool apply_patch: the lines *)
(* of a patch are parsed into hunks, and each hunk is applied to the files *)
(* of the workspace, one system call at a time.                            *)
(*                                                                         *)
(* A line of text is <<text, form>>: the form says that it ends ("t") or   *)
(* begins ("l") with blanks or is written with other punctuation ("u").    *)
(* A line of a patch is a record [k, path, line] of its kind: a header     *)
(* ("begin", "end", "add", "update", "delete", "move", "env", "at",        *)
(* "eof"), a change (" ", "+", "-"), "blank", "here" and "there" (the ends *)
(* of a shell document), or "junk".                                        *)
(***************************************************************************)
EXTENDS Integers, Sequences, SequencesExt, FiniteSets

CONSTANTS
    Inputs,       \* the patches tried: sequences of patch lines
    Trees,        \* the workspaces tried: path -> file
    BadPaths      \* paths that are absolute, go up, or cross a symbolic link

VARIABLES
    input,        \* the patch
    tree,         \* path -> [is, lines, mode]
    hunks,        \* struct patch_hunk of every file section
    at,           \* the hunk that is applied
    pstep,        \* the step of its application
    updated,      \* the new content
    dest,         \* where it goes
    temps,        \* temporary files
    changed,      \* result->changes
    before        \* history: the workspace before the hunk

patchVars == <<input, tree, hunks, at, pstep, updated, dest, temps, changed, before>>

Missing == [is |-> "none", lines |-> <<>>, mode |-> 0]
File(lines, mode) == [is |-> "file", lines |-> lines, mode |-> mode]
Blank == <<"", "">>

PatchInit ==
    /\ input \in Inputs /\ tree \in Trees
    /\ hunks = <<>> /\ at = 0 /\ pstep = "start" /\ updated = <<>> /\ dest = ""
    /\ temps = {} /\ changed = <<>> /\ before = tree

-----------------------------------------------------------------------------
(* Parsing.                                                                *)

patch_chunk_init(context) == [context |-> context, old |-> <<>>, new |-> <<>>, eof |-> FALSE]

Hunk(action, path) == [action |-> action, path |-> path, move |-> "", content |-> <<>>,
                       chunks |-> <<>>, added |-> 0, removed |-> 0]

Wrong(st) == [st EXCEPT !.ok = FALSE]
SetLast(s, x) == [s EXCEPT ![Len(s)] = x]

(* A context line is in both texts, a removed one in the old, an added one *)
(* in the new.                                                             *)
patch_parse_change_line(hunk, l) ==
    LET mark  == IF l.k = "blank" THEN " " ELSE l.k
        line  == IF l.k = "blank" THEN Blank ELSE l.line
        chunk == Last(hunk.chunks)
    IN [hunk EXCEPT
          !.chunks = SetLast(@, [chunk EXCEPT
                        !.old = IF mark # "+" THEN Append(@, line) ELSE @,
                        !.new = IF mark # "-" THEN Append(@, line) ELSE @]),
          !.added   = IF mark = "+" THEN @ + 1 ELSE @,
          !.removed = IF mark = "-" THEN @ + 1 ELSE @]

patch_append_add_line(hunk, l) ==
    [hunk EXCEPT !.content = Append(@, l.line), !.added = @ + 1]

(* A section is closed: an added file has lines, an update has chunks and  *)
(* none of them is empty.                                                  *)
Closed(hunk) ==
    /\ hunk.action = "add" => hunk.added > 0
    /\ hunk.action = "update" =>
        hunk.chunks # <<>> /\ \A i \in DOMAIN hunk.chunks :
            hunk.chunks[i].old # <<>> \/ hunk.chunks[i].new # <<>>

(* A line inside the update of a file.  The first chunk needs no header;   *)
(* after the end-of-file marker only blank lines or another chunk follow.  *)
patch_parse_update(st, l) ==
    LET hunk  == Last(st.hunks)
        With(h) == [st EXCEPT !.hunks = SetLast(@, h)]
        New(c)  == [hunk EXCEPT !.chunks = Append(@, patch_chunk_init(c))]
        fresh   == hunk.chunks = <<>>
        ended   == ~fresh /\ Last(hunk.chunks).eof
    IN CASE l.k = "move" /\ fresh /\ hunk.move = ""   -> With([hunk EXCEPT !.move = l.path])
         [] l.k = "at" /\ (fresh \/ Closed(hunk))     -> With(New(l.line))
         [] l.k = "eof" /\ ~fresh /\ ~ended /\ Closed(hunk) ->
              With([hunk EXCEPT !.chunks = SetLast(@, [Last(@) EXCEPT !.eof = TRUE])])
         [] l.k = "blank" /\ ended                    -> st
         [] l.k \in {" ", "+", "-", "blank"} /\ fresh -> With(patch_parse_change_line(New(<<>>), l))
         [] l.k \in {" ", "+", "-", "blank"} /\ ~ended -> With(patch_parse_change_line(hunk, l))
         [] OTHER                                     -> Wrong(st)

(* A line of the patch between its first and its last. *)
ParseLine(st, l) ==
    LET open == st.hunks # <<>>
    IN CASE ~st.ok -> st
         [] l.k \in {"add", "update", "delete"} ->
              IF open /\ ~Closed(Last(st.hunks)) THEN Wrong(st)
              ELSE [st EXCEPT !.hunks = Append(@, Hunk(l.k, l.path))]
         [] ~open -> Wrong(st)
         [] Last(st.hunks).action = "update" -> patch_parse_update(st, l)
         [] Last(st.hunks).action = "add" /\ l.k = "+" ->
              [st EXCEPT !.hunks = SetLast(@, patch_append_add_line(Last(@), l))]
         [] OTHER -> Wrong(st)

Strip(s) ==
    LET text == {i \in DOMAIN s : s[i].k # "blank"}
    IN IF text = {} THEN <<>> ELSE SubSeq(s, Min(text), Max(text))

(* The envelope: blank lines and a shell document around it are left out.  *)
patch_parse(lines) ==
    LET s == Strip(lines)
        e == IF Len(s) >= 4 /\ s[1].k = "here" /\ Last(s).k = "there"
             THEN SubSeq(s, 2, Len(s) - 1) ELSE s
        first == IF Len(e) > 2 /\ e[2].k = "env" THEN 3 ELSE 2
        body  == SubSeq(e, first, Len(e) - 1)
        none  == [hunks |-> <<>>, ok |-> TRUE]
        st    == FoldLeft(ParseLine, none, body)
    IN IF Len(e) < 2 \/ e[1].k # "begin" \/ Last(e).k # "end" \/ body = <<>>
       THEN Wrong(none)
       ELSE [st EXCEPT !.ok = @ /\ Closed(Last(st.hunks))]

-----------------------------------------------------------------------------
(* Finding the old lines.                                                  *)

(* What of a line's form a mode of comparison still sees. *)
patch_normalize_line(form, mode) ==
    IF \/ mode >= 1 /\ form = "t"
       \/ mode >= 2 /\ form = "l"
       \/ mode >= 3 /\ form = "u"
    THEN "" ELSE form

patch_lines_equal(l, r, mode) ==
    l[1] = r[1] /\ patch_normalize_line(l[2], mode) = patch_normalize_line(r[2], mode)

(* The first place, counted from 0, in the strictest mode that has one;    *)
(* -1 when there is none.                                                  *)
patch_seek_sequence(lines, pattern, start, eof) ==
    LET last  == Len(lines) - Len(pattern)
        first == IF eof THEN last ELSE start
        Places(mode) == {i \in first..last :
                          i >= 0 /\ \A j \in DOMAIN pattern :
                                       patch_lines_equal(lines[i + j], pattern[j], mode)}
        modes == {m \in 0..3 : Places(m) # {}}
    IN IF pattern = <<>> THEN start
       ELSE IF modes = {} THEN -1 ELSE Min(Places(Min(modes)))

(* From behind the anchor, else from where the last chunk ended. *)
Seek(lines, old, eof, cursor, from) ==
    LET found == patch_seek_sequence(lines, old, cursor, eof)
    IN IF found = -1 /\ cursor # from THEN patch_seek_sequence(lines, old, from, eof)
       ELSE found

NoBlank(s) == IF s # <<>> /\ Last(s) = Blank THEN Front(s) ELSE s

(* Where one chunk goes: an anchor that is not found is ignored, a chunk   *)
(* of additions goes to the end, and a last blank line may be missing.     *)
patch_compute_replacements(st, chunk) ==
    LET lines  == st.lines
        anchor == IF chunk.context = <<>> THEN -1
                  ELSE patch_seek_sequence(lines, chunk.context, st.cursor, FALSE)
        cursor == IF anchor = -1 THEN st.cursor ELSE anchor + 1
        exact  == Seek(lines, chunk.old, chunk.eof, cursor, st.cursor)
        short  == chunk.old # <<>> /\ exact = -1 /\ Last(chunk.old) = Blank
        old    == IF short THEN Front(chunk.old) ELSE chunk.old
        found  == IF old = <<>> /\ ~short THEN Len(lines)
                  ELSE IF short THEN Seek(lines, old, chunk.eof, cursor, st.cursor) ELSE exact
    IN CASE ~st.ok     -> st
         [] found = -1 -> [st EXCEPT !.ok = FALSE]
         [] OTHER      ->
              [st EXCEPT !.cursor = IF chunk.old = <<>> THEN cursor ELSE found + Len(old),
                         !.at = Append(@, [start |-> found, count |-> Len(old),
                                           order |-> Len(@) + 1,
                                           new |-> IF short THEN NoBlank(chunk.new)
                                                   ELSE chunk.new])]

Replacements(lines, chunks) ==
    FoldLeft(patch_compute_replacements,
             [lines |-> lines, cursor |-> 0, at |-> <<>>, ok |-> TRUE], chunks)

patch_replacement_compare(a, b) ==
    a.start < b.start \/ (a.start = b.start /\ a.order < b.order)

(* An output that takes the replacements in the order of the patch. *)
patch_build_updated_unsorted(lines, reps) ==
    LET Add(st, r) == [out |-> st.out \o SubSeq(lines, st.at + 1, r.start) \o r.new,
                       at  |-> r.start + r.count]
        end == FoldLeft(Add, [out |-> <<>>, at |-> 0], reps)
    IN end.out \o SubSeq(lines, end.at + 1, Len(lines))

patch_build_updated_content(lines, reps) ==
    LET Add(st, r) == [out |-> st.out \o SubSeq(lines, st.at + 1, r.start) \o r.new,
                       at  |-> r.start + r.count]
        end == FoldLeft(Add, [out |-> <<>>, at |-> 0],
                        SortSeq(reps, patch_replacement_compare))
    IN end.out \o SubSeq(lines, end.at + 1, Len(lines))

-----------------------------------------------------------------------------
(* Applying.                                                               *)

patch_resolve_target(path) == path \notin BadPaths

Ends(how) ==
    /\ pstep' = how
    /\ UNCHANGED <<input, tree, hunks, at, updated, dest, temps, changed, before>>

(* The input is read: too long, not UTF-8 or not a patch ends the call.    *)
patch_apply ==
    /\ pstep = "start"
    /\ LET parsed == patch_parse(input)
       IN \/ Ends("failed")
          \/ /\ ~parsed.ok /\ Ends("failed")
          \/ /\ parsed.ok
             /\ hunks' = parsed.hunks /\ at' = 1 /\ pstep' = "hunk"
             /\ UNCHANGED <<input, tree, updated, dest, temps, changed, before>>

Writes(path, lines) ==
    /\ updated' = lines /\ dest' = path /\ pstep' = "write"
    /\ UNCHANGED <<input, tree, hunks, at, temps, changed, before>>

(* The file is checked and, for an update, read and edited in memory. *)
patch_apply_hunk ==
    /\ pstep = "hunk"
    /\ LET h      == hunks[at]
           source == tree[h.path]
           reps   == Replacements(source.lines, h.chunks)
           to     == IF h.move = "" THEN h.path ELSE h.move
       IN IF ~patch_resolve_target(h.path) \/ source.is = "other" THEN Ends("failed")
          ELSE CASE h.action = "add" -> Ends("failed") \/ Writes(h.path, h.content)
                 [] h.action = "delete" ->
                      \/ Ends("failed")
                      \/ /\ source.is = "file"
                         /\ tree' = [tree EXCEPT ![h.path] = Missing] /\ pstep' = "result"
                         /\ UNCHANGED <<input, hunks, at, updated, dest, temps, changed, before>>
                 [] h.action = "update" ->
                      \/ Ends("failed")
                      \/ /\ source.is = "file" /\ reps.ok
                         /\ patch_resolve_target(to) /\ tree[to].is # "other"
                         /\ Writes(to, patch_build_updated_content(source.lines, reps.at))

(* A temporary file is written and synced; on a failure it is removed. *)
patch_atomic_write ==
    /\ pstep = "write"
    /\ \/ Ends("failed")
       \/ /\ temps' = temps \cup {dest} /\ pstep' = "rename"
          /\ UNCHANGED <<input, tree, hunks, at, updated, dest, changed, before>>

(* Its mode is the one of the file it replaces, of the source of a move,   *)
(* or 0644.                                                                *)
Mode(h) ==
    IF tree[dest].is = "file" THEN tree[dest].mode
    ELSE IF h.action = "update" THEN tree[h.path].mode ELSE 644

Renames ==
    /\ pstep = "rename"
    /\ LET h == hunks[at]
       IN \/ /\ pstep' = "failed" /\ temps' = temps \ {dest}
             /\ UNCHANGED <<input, tree, hunks, at, updated, dest, changed, before>>
          \/ /\ tree' = [tree EXCEPT ![dest] = File(updated, Mode(h))]
             /\ temps' = temps \ {dest}
             /\ pstep' = IF dest # h.path THEN "unlink" ELSE "result"
             /\ UNCHANGED <<input, hunks, at, updated, dest, changed, before>>

(* The source of a move goes last. *)
Unlinks ==
    /\ pstep = "unlink"
    /\ \/ Ends("failed")
       \/ /\ tree' = [tree EXCEPT ![hunks[at].path] = Missing] /\ pstep' = "result"
          /\ UNCHANGED <<input, hunks, at, updated, dest, temps, changed, before>>

patch_result_add ==
    /\ pstep = "result"
    /\ LET h == hunks[at]
       IN changed' = Append(changed, [path |-> IF h.move = "" THEN h.path ELSE h.move,
                                      action |-> h.action, added |-> h.added,
                                      removed |-> h.removed])
    /\ IF at = Len(hunks) THEN pstep' = "done" /\ UNCHANGED <<at, before>>
       ELSE pstep' = "hunk" /\ at' = at + 1 /\ before' = tree
    /\ UNCHANGED <<input, tree, hunks, updated, dest, temps>>

Crashes == pstep \notin {"done", "failed", "crashed"} /\ Ends("crashed")

PatchNext ==
    \/ patch_apply \/ patch_apply_hunk \/ patch_atomic_write \/ Renames \/ Unlinks
    \/ patch_result_add \/ Crashes

-----------------------------------------------------------------------------
(* What a patch means.                                                     *)

Alike(lines, from, pattern) ==
    \A j \in DOMAIN pattern : patch_lines_equal(lines[from + j], pattern[j], 3)

(* The old texts of the chunks occur at these places (without a last blank *)
(* line where short says so), apart from each other, and the result is     *)
(* the rest with the new texts in their places.                            *)
Edited(lines, result, chunks) ==
    \E place \in [DOMAIN chunks -> 0..Len(lines)], short \in [DOMAIN chunks -> BOOLEAN] :
        LET Old(i) == IF short[i] THEN NoBlank(chunks[i].old) ELSE chunks[i].old
            New(i) == IF short[i] THEN NoBlank(chunks[i].new) ELSE chunks[i].new
            Gone   == UNION {(place[i] + 1)..(place[i] + Len(Old(i))) : i \in DOMAIN chunks}
            Put(p) == FlattenSeq([i \in DOMAIN chunks |-> IF place[i] = p THEN New(i) ELSE <<>>])
            Kept(p) == IF p \in Gone \/ p > Len(lines) THEN <<>> ELSE <<lines[p]>>
        IN /\ \A i \in DOMAIN chunks :
                /\ place[i] + Len(Old(i)) <= Len(lines) /\ Alike(lines, place[i], Old(i))
                /\ \A k \in DOMAIN chunks : k # i =>
                     ((place[i] + 1)..(place[i] + Len(Old(i))))
                       \cap ((place[k] + 1)..(place[k] + Len(Old(k)))) = {}
           /\ result = FlattenSeq([p \in 1..(Len(lines) + 1) |-> Put(p - 1) \o Kept(p)])

(* Two chunks of which the later is tied to the end of the file may match  *)
(* the same lines; nothing is said of the result then.                     *)
Apart(lines, chunks) ==
    LET r == Replacements(lines, chunks).at
    IN \A i, k \in DOMAIN r : i < k =>
         r[i].start + r[i].count <= r[k].start \/ r[k].start + r[k].count <= r[i].start

(* The workspace after a hunk. *)
Applied(h) ==
    LET to == IF h.move = "" THEN h.path ELSE h.move
    IN /\ \A p \in DOMAIN tree : p \notin {h.path, to} => tree[p] = before[p]
       /\ h.action = "add" => tree[h.path].lines = h.content
       /\ h.action = "delete" => tree[h.path] = Missing
       /\ h.action = "update" =>
            /\ to # h.path => tree[h.path] = Missing
            /\ tree[to].is = "file"
            /\ Apart(before[h.path].lines, h.chunks) =>
                 Edited(before[h.path].lines, tree[to].lines, h.chunks)
            /\ tree[to].mode = IF before[to].is = "file" THEN before[to].mode
                               ELSE before[h.path].mode

(* Wherever an application stops, by an error or a crash: a hunk that is   *)
(* reported was applied in full, one text at disjoint places where its old *)
(* lines are and nothing else changed; of the hunk under way no file is    *)
(* half written, no content is lost, and files it does not name are as     *)
(* they were (patch_apply, patch_apply_hunk, patch_atomic_write).          *)
PatchFaithful ==
    /\ pstep = "result" => Applied(hunks[at])
    /\ \A p \in DOMAIN tree :
         \/ tree[p] = before[p]
         \/ p = dest /\ tree[p].lines = updated
         \/ tree[p] = Missing /\ p = hunks[at].path
            /\ (hunks[at].action = "delete" \/ tree[dest].lines = updated)
    /\ Len(changed) = IF pstep = "done" THEN Len(hunks) ELSE IF at = 0 THEN 0 ELSE at - 1
    /\ \A i \in DOMAIN changed : changed[i].action = hunks[i].action
    /\ pstep \in {"done", "failed"} => temps = {}
=============================================================================
