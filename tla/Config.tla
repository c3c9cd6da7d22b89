------------------------------- MODULE Config -------------------------------
(***************************************************************************)
(* The configuration file (src/util/config.cpp): lines to a tree, paths to *)
(* values, the tree back to lines.  A line is what its first characters    *)
(* make of it: blank, a comment, an item "key: value", or one that does    *)
(* not parse ("bad": a space before the key, or no separator).             *)
(*                                                                         *)
(* A tree is the sequence of its nodes in the order of add_child, each     *)
(* with the place of its parent; 0 is the root.  In a loaded tree that is  *)
(* the order in which save visits them.                                    *)
(***************************************************************************)
EXTENDS Naturals, Sequences

CONSTANT NoConfig   \* what load returns for a file that does not parse

Blank == [kind |-> "blank"]
Bad(indent) == [kind |-> "bad", indent |-> indent]
Comment(val) == [kind |-> "comment", val |-> val]
Item(indent, key, val) == [kind |-> "item", indent |-> indent, key |-> key, val |-> val]

(* A line that starts with '#' is a comment, so that no item has this key.  *)
Keys == STRING \ {"#"}

Lines == {Blank} \cup [kind : {"bad"}, indent : Nat]
         \cup [kind : {"comment"}, val : STRING]
         \cup [kind : {"item"}, indent : Nat, key : Keys, val : STRING]

Parent(tree, i) == IF i = 0 THEN 0 ELSE tree[i].parent
Depth(tree, i) == IF i = 0 THEN 0 ELSE tree[i].depth

add_child(tree, i, key, val) ==
    Append(tree, [parent |-> i, depth |-> Depth(tree, i) + 1, key |-> key, val |-> val])

(* Up from node i by n parents, and no further than the root.               *)
Climb(tree, i, n) ==
    LET up[k \in 0..n] == IF k = 0 THEN i ELSE Parent(tree, up[k - 1])
    IN  up[n]

Unread == [tree |-> <<>>, cfg |-> 0, last_indent |-> 0, ok |-> TRUE]

(* Mutant: an item of the same indent as the last becomes its child.        *)
ReadItem_one_short(st, line) ==
    LET steps == IF line.indent <= st.last_indent THEN st.last_indent - line.indent ELSE 0
        cfg == Climb(st.tree, st.cfg, steps)
    IN  IF line.kind = "bad" \/ line.indent > st.last_indent + 1
        THEN [st EXCEPT !.ok = FALSE]
        ELSE [tree |-> add_child(st.tree, cfg, line.key, line.val),
              cfg |-> Len(st.tree) + 1, last_indent |-> line.indent, ok |-> TRUE]

ReadItem(st, line) ==
    LET steps == IF line.indent <= st.last_indent THEN st.last_indent - line.indent + 1 ELSE 0
        cfg == Climb(st.tree, st.cfg, steps)
    IN  IF line.kind = "bad" \/ line.indent > st.last_indent + 1
        THEN [st EXCEPT !.ok = FALSE]
        ELSE [tree |-> add_child(st.tree, cfg, line.key, line.val),
              cfg |-> Len(st.tree) + 1, last_indent |-> line.indent, ok |-> TRUE]

(* A comment belongs to the item above it and leaves the indent alone.      *)
ReadLine(st, line) ==
    CASE ~st.ok \/ line = Blank -> st
      [] st.ok /\ line.kind = "comment" ->
            [st EXCEPT !.tree = add_child(st.tree, st.cfg, "#", line.val)]
      [] OTHER -> ReadItem(st, line)

load(lines) ==
    LET read[i \in 0..Len(lines)] ==
          IF i = 0 THEN Unread ELSE ReadLine(read[i - 1], lines[i])
        st == read[Len(lines)]
    IN  IF st.ok THEN st.tree ELSE NoConfig

-----------------------------------------------------------------------------
(* The last child of that name, or 0.                                       *)
find_child(tree, i, key) ==
    LET found == {j \in DOMAIN tree : tree[j].parent = i /\ tree[j].key = key}
    IN  IF found = {} THEN 0 ELSE CHOOSE j \in found : \A k \in found : k <= j

(* The node at the end of a path of keys, or 0.                             *)
get(tree, path) ==
    LET at[n \in 0..Len(path)] ==
          IF n = 0 THEN 0
          ELSE IF n > 1 /\ at[n - 1] = 0 THEN 0
          ELSE find_child(tree, at[n - 1], path[n])
    IN  at[Len(path)]

get_str(tree, path) == LET i == get(tree, path) IN IF i = 0 THEN "" ELSE tree[i].val

SavedLine(tree, i) ==
    IF tree[i].key = "#" THEN Comment(tree[i].val)
    ELSE Item(Depth(tree, tree[i].parent), tree[i].key, tree[i].val)

save(tree) == [i \in DOMAIN tree |-> SavedLine(tree, i)]

-----------------------------------------------------------------------------
(* What load means, read off the text: an item belongs to the nearest item  *)
(* above it with a smaller indent, a comment to the nearest item above it,  *)
(* and an item may be one deeper than the item above it.                    *)
Nearest(places) == IF places = {} THEN 0 ELSE CHOOSE j \in places : \A k \in places : k <= j

ItemsAbove(text, i) == {j \in 1..(i - 1) : text[j].kind = "item"}

Owner(text, i) ==
    Nearest({j \in ItemsAbove(text, i) :
                text[i].kind = "item" => text[j].indent < text[i].indent})

Readable(text) ==
    \A i \in DOMAIN text :
       /\ text[i].kind # "bad"
       /\ text[i].kind = "item" =>
             LET above == Nearest(ItemsAbove(text, i))
             IN  text[i].indent <= 1 + (IF above = 0 THEN 0 ELSE text[above].indent)

(* The node each line ends up in: the lines that are not blank, counted.    *)
Place(lines) ==
    LET place[i \in 0..Len(lines)] ==
          IF i = 0 THEN 0
          ELSE IF lines[i] = Blank THEN place[i - 1] ELSE place[i - 1] + 1
    IN  place

KeyOf(line) == IF line.kind = "comment" THEN "#" ELSE line.key

LoadsByIndent(lines) ==
    LET place == Place(lines)
        tree == load(lines)
    IN  IF Readable(lines)
        THEN /\ Len(tree) = place[Len(lines)]
             /\ \A i \in DOMAIN lines :
                   lines[i] # Blank =>
                      /\ tree[place[i]].parent = place[Owner(lines, i)]
                      /\ tree[place[i]].key = KeyOf(lines[i])
                      /\ tree[place[i]].val = lines[i].val
        ELSE tree = NoConfig

SurvivesSaving(lines) ==
    load(lines) # NoConfig => load(save(load(lines))) = load(lines)

(* Where the last item of this key and indent is, from a line on and before *)
(* the next item with a smaller indent.                                     *)
LastOf(lines, from, indent, key) ==
    LET items == {i \in from..Len(lines) : lines[i].kind = "item"}
        ends == {i \in items : lines[i].indent < indent}
    IN  Nearest({i \in items : /\ lines[i].indent = indent /\ lines[i].key = key
                               /\ \A e \in ends : i < e})

(* What the text says last: of a section that is given twice the keys of    *)
(* the first do not count, and of a key given twice the last.               *)
GetsTheLast(lines, section, key) ==
    LET s == LastOf(lines, 1, 0, section)
        i == IF s = 0 THEN 0 ELSE LastOf(lines, s + 1, 1, key)
    IN  get_str(load(lines), <<section, key>>) = (IF i = 0 THEN "" ELSE lines[i].val)

StartsFlush(lines) ==
    \A i \in DOMAIN lines :
       lines[i].kind = "item" /\ ItemsAbove(lines, i) = {} => lines[i].indent = 0
=============================================================================
