-------------------------------- MODULE Yaml --------------------------------
(* How leather reads its subset of YAML (internal/yamlx and the block readers
   of the loaders).  A document is a sequence of lines; blank lines, comments
   and quotes are left out, since no reader keeps them.  A line is

     ind   its indentation
     dash  whether the text starts with "- "
     key   the text before the colon, "" when the line has no colon
     val   the text after it (after "- " when there is no colon): <<>> when
           empty, <<v>> for a scalar, the items of a flow list
     flow  whether the value is a flow list [a, b]                          *)
EXTENDS Selection, SequencesExt

CONSTANT Malformed   \* the scalars that no number, duration, boolean or pattern is written as

Line(ind, dash, key, val, flow) ==
    [ind |-> ind, dash |-> dash, key |-> key, val |-> val, flow |-> flow]
Scalar(key, v) == Line(0, FALSE, key, <<v>>, FALSE)
Heading(key)   == Line(0, FALSE, key, <<>>, FALSE)
FlowList(key, items) == Line(0, FALSE, key, items, TRUE)
Item(v)        == Line(0, TRUE, "", <<v>>, FALSE)
Indent(lines, n) == [i \in DOMAIN lines |-> [lines[i] EXCEPT !.ind = @ + n]]

IsHeading(l, key) == ~l.dash /\ l.key = key /\ l.val = <<>> /\ ~l.flow

\* A lookup in a Go map: the zero value when the key is absent.
At(f, k, zero) == IF k \in DOMAIN f THEN f[k] ELSE zero
With(f, k, v)  == [x \in {k} \cup DOMAIN f |-> IF x = k THEN v ELSE f[x]]
\* f over g: the @@ of TLC, which is unknown to the prover.
f ++ g == [k \in DOMAIN f \cup DOMAIN g |-> IF k \in DOMAIN f THEN f[k] ELSE g[k]]

-----------------------------------------------------------------------------
\* What an item says: a colon in it is text (a prompt with a colon).
ItemText(l) == IF l.key = "" THEN l.val
               ELSE <<l.key \o ": " \o IF l.val = <<>> THEN "" ELSE l.val[1]>>

(* ParseBlock.  Indentation is trimmed first: the keys of a nested block are
   read as keys of the document.  A heading opens a list that takes the items
   that follow it; a flow list adds to what the key has; of two scalars with
   one key the last stays.                                                  *)
ParseBlock(lines) ==
    LET Add(d, k, items) == [d EXCEPT !.lists = With(@, k, At(@, k, <<>>) \o items)]
        Read(d, l) ==
            IF l.dash
            THEN IF d.open = "" THEN d ELSE Add(d, d.open, ItemText(l))
            ELSE LET closed == [d EXCEPT !.open = ""]
                 IN  IF l.key = "" THEN closed
                     ELSE IF l.flow THEN Add(closed, l.key, l.val)
                     ELSE IF l.val = <<>> THEN [d EXCEPT !.open = l.key]
                     ELSE [closed EXCEPT !.vals = With(@, l.key, l.val[1])]
    IN  FoldLeft(Read, [vals |-> <<>>, lists |-> <<>>, open |-> ""], lines)

(* ParseFlat: one line at a time, no block lists; a flow list replaces, and an
   empty value is kept as "".                                               *)
ParseFlat(lines) ==
    LET Read(d, l) ==
            IF l.dash \/ l.key = "" THEN d
            ELSE IF l.flow THEN [d EXCEPT !.lists = With(@, l.key, l.val)]
            ELSE [d EXCEPT !.vals = With(@, l.key, IF l.val = <<>> THEN "" ELSE l.val[1])]
    IN  FoldLeft(Read, [vals |-> <<>>, lists |-> <<>>], lines)

-----------------------------------------------------------------------------
\* The scalar of a line (SplitKV) for a reader of a nested block.
ValueOf(l) == IF l.val = <<>> THEN "" ELSE l.val[1]

Keep(lines, Test(_)) == Select(lines, {l \in Range(lines) : Test(l)})
FirstIndex(lines, Test(_)) ==
    LET hits == {i \in DOMAIN lines : Test(lines[i])}
    IN  IF hits = {} THEN 0 ELSE CHOOSE i \in hits : \A j \in hits : i <= j

(* The lines of a nested block: from the first line that is "name:", however
   deep, to the next line without indentation.                              *)
BlockOf(lines, name) ==
    LET start == FirstIndex(lines, LAMBDA l : IsHeading(l, name))
        rest  == SubSeq(lines, start + 1, Len(lines))
        stop  == FirstIndex(rest, LAMBDA l : l.ind = 0)
    IN  IF start = 0 THEN <<>>
        ELSE IF stop = 0 THEN rest ELSE SubSeq(rest, 1, stop - 1)

\* The scalars of the lines of a block, the last one with a key first.
BlockValues(lines) ==
    LET Read(f, l) == IF l.dash \/ l.key = "" THEN f ELSE With(f, l.key, ValueOf(l))
    IN  FoldLeft(Read, <<>>, lines)

(* Items: the lines split at each "- " line for which Starts holds; the first
   line of an item loses its dash.                                          *)
ToItems(start, acc, l) ==
    IF start THEN Append(acc, <<[l EXCEPT !.dash = FALSE, !.ind = 0]>>)
    ELSE IF acc = <<>> THEN acc
    ELSE [acc EXCEPT ![Len(acc)] = Append(@, l)]
Items(lines, Starts(_)) == FoldLeft(LAMBDA acc, l : ToItems(Starts(l), acc, l), <<>>, lines)
ItemsAt(lines, level) == Items(lines, LAMBDA l : l.dash /\ l.ind = level)

(* The items of a list of mappings (splitInstanceBlocks, parseToolList): the
   indentation of the first "- " line sets the level, only "- " lines at that
   level start an item, lines not deeper than it are dropped, and the others
   keep their indentation relative to the first key of the item.            *)
Mappings(lines) ==
    LET first == FirstIndex(lines, LAMBDA l : l.dash)
        level == lines[first].ind
        parts == ItemsAt(Keep(lines, LAMBDA l : l.ind > level \/ (l.dash /\ l.ind = level)), level)
        Shift(l) == [l EXCEPT !.ind = IF @ > level + 2 THEN @ - (level + 2) ELSE 0]
    IN  IF first = 0 THEN <<>>
        ELSE [i \in DOMAIN parts |-> [j \in DOMAIN parts[i] |-> Shift(parts[i][j])]]
=============================================================================
