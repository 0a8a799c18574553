---- MODULE ConfigMerge ----
(* internal/configmerge: what `v2vctl config sync` makes of an operator's   *)
(* file and the release's template.  An .env file is a sequence of lines;   *)
(* a value is <<text, n>>, n counting the quotes that have become part of   *)
(* the text; keys are numbers, in the alphabetical order of their names.    *)
(* Blank lines and the layout of JSON are left out.                         *)
EXTENDS Integers, Sequences, SequencesExt, FiniteSets
CONSTANT Spaced    \* the texts that hold a blank, and so need quotes

(* One line: an entry, an entry commented out, or prose. *)
Line(kind, k, v, quoted, note) ==
  [kind |-> kind, key |-> k, val |-> v, quoted |-> quoted, note |-> note]

(* parseEnvLine, unquoteEnv: a quoted value that is followed by a comment   *)
(* does not end in its quote, so the quotes are read as text.               *)
Parsed(l) == IF l.quoted /\ l.note THEN <<l.val[1], l.val[2] + 1>> ELSE l.val

(* parseEnv. *)
Places(file, kind, k) == {i \in DOMAIN file : file[i].kind = kind /\ file[i].key = k}
KeysOf(file, kind) == {file[i].key : i \in {j \in DOMAIN file : file[j].kind = kind}}
Mut_FirstWins(file, k) == file[Min(Places(file, "active", k))]
Raw(file, k) == file[Max(Places(file, "active", k))]
Values(file) == [k \in KeysOf(file, "active") |-> Parsed(Raw(file, k))]

(* What the server gets: godotenv keeps the last entry of a key, and knows  *)
(* a comment after a quoted value.                                          *)
Loaded(file) == [k \in KeysOf(file, "active") |-> file[Max(Places(file, "active", k))].val]

CommentedKeys(file) ==
  {k \in KeysOf(file, "commented") :
     \A i \in Places(file, "active", k) : Min(Places(file, "commented", k)) < i}
CommentedRaw(file, k) == file[Min(Places(file, "commented", k))]

(* Seeded fault: every comment above, not only the ones directly above. *)
Mut_TakesAllAbove(file, i) == SelectSeq(SubSeq(file, 1, i - 1), LAMBDA l : l.kind # "active")

(* The comment lines directly above line i, and the block kept with a key.  *)
Block(file, i) ==
  LET above == {j \in 1..(i - 1) : file[j].kind = "active"} \cup {0}
  IN  SubSeq(file, Max(above) + 1, i - 1)
Comments(file, k) ==
  LET headed == {i \in Places(file, "active", k) : Block(file, i) # << >>}
  IN  IF headed = {} THEN << >> ELSE Block(file, Max(headed))

(* OverlayEnv: the template decides structure and comments, the local file  *)
(* decides values.                                                          *)
Overlay(local, new) ==
  LET mine == KeysOf(local, "active")
      theirs == KeysOf(new, "active")
      off == CommentedKeys(new)
  IN  [values |-> [k \in mine \cup theirs |->
                     IF k \in mine THEN Values(local)[k] ELSE Values(new)[k]],
       added |-> theirs \ mine,
       activated |-> (mine \cap off) \ theirs,
       orphaned |-> mine \ (theirs \cup off),
       overridden |-> {k \in mine \cap theirs : Values(local)[k] # Values(new)[k]}
                        \cup ((mine \cap off) \ theirs)]

NeedsQuoting(v) == v[2] > 0 \/ v[1] \in Spaced

(* substituteEnvValue: key, quoting style and trailing comment stay.        *)
Substitute(l, v) ==
  IF Parsed(l) = v THEN l
  ELSE [l EXCEPT !.val = v, !.quoted = @ \/ NeedsQuoting(v)]

(* Seeded fault: a key the operator has commented out is no new key. *)
Mut_NoHold(l, o, local, policy) ==
  CASE l.kind = "active" /\ l.key \in (policy \cap o.added) \ CommentedKeys(local) ->
         [l EXCEPT !.kind = "commented"]
    [] l.kind = "active" /\ l.key \notin (policy \cap o.added) \ CommentedKeys(local) ->
         Substitute(l, o.values[l.key])
    [] l.kind = "commented" /\ l.key \in o.activated ->
         Substitute([l EXCEPT !.kind = "active"], o.values[l.key])
    [] OTHER -> l

(* RenderEnvWithPolicy: the template's lines with the merged values, then   *)
(* the local-only keys with their comments.                                 *)
RenderLine(l, o, local, policy) ==
  CASE l.kind = "active" /\ l.key \in policy \cap o.added ->
         IF l.key \in CommentedKeys(local) THEN CommentedRaw(local, l.key)
         ELSE [l EXCEPT !.kind = "commented"]
    [] l.kind = "active" /\ l.key \notin policy \cap o.added -> Substitute(l, o.values[l.key])
    [] l.kind = "commented" /\ l.key \in o.activated ->
         Substitute([l EXCEPT !.kind = "active"], o.values[l.key])
    [] OTHER -> l

Render(o, local, new, policy) ==
  LET tail == SetToSortSeq(o.orphaned, <)
  IN  [i \in DOMAIN new |-> RenderLine(new[i], o, local, policy)]
        \o FlattenSeq([i \in DOMAIN tail |->
                         Append(Comments(local, tail[i]), Raw(local, tail[i]))])

(* EnvAllKeys and DropEnvKeys: what a take may name, and what it resets.    *)
AllKeys(file) == KeysOf(file, "active") \cup KeysOf(file, "commented")
(* Seeded fault: of a taken key, only the commented lines go. *)
Mut_DropsCommented(file, take) == SelectSeq(file, LAMBDA l : l.kind # "commented" \/ l.key \notin take)

Drop(file, take) == SelectSeq(file, LAMBDA l : l.kind = "prose" \/ l.key \notin take)
Dropped(file, take) == AllKeys(file) \cap take

(* mergeAll for the .env file, and verifyEnvOut for what it rendered.       *)
MergeEnv(local, new, take, policy) ==
  LET cur == Drop(local, take)
  IN  Render(Overlay(cur, new), cur, new, policy \ take)
Verified(local, new, take, policy) ==
  LET cur == Drop(local, take)
      o == Overlay(cur, new)
      out == MergeEnv(local, new, take, policy)
  IN  \A k \in DOMAIN o.values \ ((policy \ take) \cap o.added) :
         k \in DOMAIN Values(out) /\ Values(out)[k] = o.values[k]

(* roles.json and the client's file: top-level keys only, and a take of a   *)
(* key beats the manifest's "skip" for it.                                  *)
DropJSONTopKeys(local, take) == [k \in DOMAIN local \ take |-> local[k]]
OverlayJSON(local, new, skip) ==
  [k \in DOMAIN local \cup (DOMAIN new \ skip) |-> IF k \in DOMAIN local THEN local[k] ELSE new[k]]
MergeJSON(local, new, take, skip) ==
  OverlayJSON(DropJSONTopKeys(local, take), new, skip \ take)

(* A trust file: a union, unless the whole file is taken.                   *)
OverlayTrust(local, new) == new \cup local
MergeTrust(local, new, taken) == OverlayTrust(IF taken THEN {} ELSE local, new)

(* Seeded fault: the new entry goes to the top of the file. *)
Mut_FirstLine(file, k, v) == <<Line("active", k, v, FALSE, FALSE)>> \o file

(* setEnvValue: the first line of the key, commented or not, is replaced.   *)
SetEnv(file, k, v) ==
  LET at == {i \in DOMAIN file : file[i].kind # "prose" /\ file[i].key = k}
      l == Line("active", k, v, FALSE, FALSE)
  IN  IF at = {} THEN Append(file, l) ELSE [file EXCEPT ![Min(at)] = l]
====
