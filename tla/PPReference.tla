---------------------------- MODULE PPReference -----------------------------
(***************************************************************************)
(* What C says the preprocessor's output is, for programs whose macros do  *)
(* not lead back to themselves.  A conditional line carries its expression *)
(* as a tree beside its characters.                                        *)
(***************************************************************************)
EXTENDS CCPreproc

---------------------------------------------------------------------------
(* Expressions, their values and their spelling.                           *)

Numb(v)      == [k |-> "num", n |-> v]
Name(x)      == [k |-> "name", x |-> x]
Defined(x)   == [k |-> "defined", x |-> x]
Unary(o, a)  == [k |-> "un", o |-> o, a |-> a]
Binary(o, a, b) == [k |-> "bin", o |-> o, a |-> a, b |-> b]

\* C's operators, a set for each level of binding from the tightest.
Binding == << {"*", "/", "%"}, {"+", "-"}, {"<<", ">>"}, {"<", ">", "<=", ">="}, {"==", "!="}, {"&"}, {"^"}, {"|"}, {"||"} >>
LevelOf(e) == IF e.k = "bin" THEN CHOOSE l \in DOMAIN Binding : e.o \in Binding[l] ELSE 0

Trunc(a, b) == LET q == (IF a < 0 THEN -a ELSE a) \div (IF b < 0 THEN -b ELSE b) IN IF (a < 0) = (b < 0) THEN q ELSE -q

RECURSIVE ValueOf(_, _)
ValueOf(ms, e) ==
    LET a == ValueOf(ms, e.a)
        b == ValueOf(ms, e.b)
        bit(t) == IF t THEN 1 ELSE 0
    IN CASE e.k = "num" -> e.n
         [] e.k = "name" -> IF e.x \in DOMAIN ms THEN ms[e.x].body[1].n ELSE 0
         [] e.k = "defined" -> bit(e.x \in DOMAIN ms)
         [] e.k = "un" -> (CASE e.o = "!" -> bit(a = 0) [] e.o = "~" -> -a - 1 [] e.o = "-" -> -a [] OTHER -> a)
         [] OTHER -> CASE e.o = "*" -> a * b [] e.o = "/" -> Trunc(a, b) [] e.o = "%" -> a - b * Trunc(a, b)
                       [] e.o = "+" -> a + b [] e.o = "-" -> a - b
                       [] e.o = "<<" -> a * 2 ^ b [] e.o = ">>" -> a \div 2 ^ b
                       [] e.o = "<" -> bit(a < b) [] e.o = ">" -> bit(a > b) [] e.o = "<=" -> bit(a <= b) [] e.o = ">=" -> bit(a >= b)
                       [] e.o = "==" -> bit(a = b) [] e.o = "!=" -> bit(a # b)
                       [] e.o = "&" -> a & b [] e.o = "^" -> a ^^ b [] e.o = "|" -> a | b
                       [] OTHER -> bit(a # 0 \/ b # 0)

Spelled(o) ==
    CASE o = "<<" -> Chars2("<", "<") [] o = ">>" -> Chars2(">", ">") [] o = "<=" -> Chars2("<", "=") [] o = ">=" -> Chars2(">", "=")
      [] o = "==" -> Chars2("=", "=") [] o = "!=" -> Chars2("!", "=") [] o = "||" -> Chars2("|", "|") [] OTHER -> Op1(o)

\* With parentheses only where C needs them.
RECURSIVE Spell(_, _)
Spell(e, level) ==
    IF LevelOf(e) > level THEN << Ch("(") >> \o Spell(e, Len(Binding)) \o << Ch(")") >>
    ELSE CASE e.k = "num" -> << NumT(e.n) >>
           [] e.k = "name" -> << Id(e.x) >>
           [] e.k = "defined" -> << Id("defined"), Blank, Ch("("), Id(e.x), Ch(")") >>
           [] e.k = "un" -> Spelled(e.o) \o Spell(e.a, 0)
           [] OTHER -> Spell(e.a, LevelOf(e)) \o << Blank >> \o Spelled(e.o) \o << Blank >> \o Spell(e.b, LevelOf(e) - 1)

Conditional(k, e) == [k |-> k, ts |-> << Blank >> \o Spell(e, Len(Binding)), e |-> e]

---------------------------------------------------------------------------
(* Which lines are selected.                                               *)

IsOpen(l) == l.k \in {"if", "ifdef", "ifndef"}
IsHead(l) == IsOpen(l) \/ l.k \in {"elif", "else"}
Nest(ls, i, j) == Cardinality({k \in i .. j : IsOpen(ls[k])}) - Cardinality({k \in i .. j : ls[k].k = "endif"})

\* The conditionals line i lies in, and the heads of the groups of one, up to
\* the group of line i.
Enclosing(ls, i) == {j \in 1 .. i - 1 : IsOpen(ls[j]) /\ \A k \in j .. i - 1 : Nest(ls, j, k) >= 1}
Heads(ls, j, i) == {j} \cup {k \in j .. i - 1 : IsHead(ls[k]) /\ ~IsOpen(ls[k]) /\ Nest(ls, j, k) = 1}

\* Line i is selected iff, in each conditional around it, its group is the
\* first one whose condition held.
Selected(ls, held, i) ==
    \A j \in Enclosing(ls, i) : {k \in Heads(ls, j, i) : k \in held} = {Max(Heads(ls, j, i))}

Holds(ms, l) ==
    CASE l.k = "ifdef" -> l.x \in DOMAIN ms
      [] l.k = "ifndef" -> l.x \notin DOMAIN ms
      [] l.k = "else" -> TRUE
      [] OTHER -> ValueOf(ms, l.e) # 0

---------------------------------------------------------------------------
(* What a line of text becomes.                                            *)

IsTok(t, c) == t = Ch(c)
CountOf(ts, c, j) == Cardinality({k \in 1 .. j : IsTok(ts[k], c)})
Level(ts, j) == CountOf(ts, "(", j) - CountOf(ts, ")", j)

\* ts starts with "(": the index of the parenthesis that closes it, and the
\* arguments between them.
Closing(ts) == Min({j \in DOMAIN ts : Level(ts, j) = 0})
Arguments(ts) ==
    LET cuts == SetToSortSeq({1, Closing(ts)} \cup {j \in 1 .. Closing(ts) : IsTok(ts[j], ",") /\ Level(ts, j) = 1}, LAMBDA a, b: a < b)
    IN [a \in 1 .. Len(cuts) - 1 |-> SubSeq(ts, cuts[a] + 1, cuts[a + 1] - 1)]

\* An expansion is scanned again together with the rest of the line.
RECURSIVE Expanded(_, _, _)
Expanded(ms, ts, where) ==
    LET t == Head(ts)
        rest == Tail(ts)
        m == ms[t.v]
        endq == 1 + Min({j \in DOMAIN rest : rest[j] = t})
        args == [a \in DOMAIN Arguments(rest) |-> Expanded(ms, Arguments(rest)[a], where)]
        body == FoldLeft(LAMBDA acc, b: acc \o IF b.k = "id" /\ \E a \in DOMAIN m.params : m.params[a] = b.v
                                               THEN args[CHOOSE a \in DOMAIN m.params : m.params[a] = b.v] ELSE << b >>, <<>>, m.body)
    IN CASE ts = <<>> -> <<>>
         [] ts # <<>> /\ t \in {Quote, Apostrophe} -> SubSeq(ts, 1, endq) \o Expanded(ms, SubSeq(ts, endq + 1, Len(ts)), where)
         [] ts # <<>> /\ t = Id("__LINE__") -> << NumT(where.line) >> \o Expanded(ms, rest, where)
         [] ts # <<>> /\ t = Id("__FILE__") -> << Quote, FileName(where.file), Quote >> \o Expanded(ms, rest, where)
         [] ts # <<>> /\ t.k = "id" /\ t.v \in DOMAIN ms /\ ~m.is_func -> Expanded(ms, m.body \o rest, where)
         [] ts # <<>> /\ t.k = "id" /\ t.v \in DOMAIN ms /\ m.is_func /\ rest # <<>> /\ IsTok(Head(rest), "(") ->
              Expanded(ms, body \o SubSeq(rest, Closing(rest) + 1, Len(rest)), where)
         [] OTHER -> << t >> \o Expanded(ms, rest, where)

---------------------------------------------------------------------------
(* A file and the files it includes.                                       *)

\* doc/reference.html: "file.h" is looked for beside the including file, in
\* the working directory, in the root and in /lib, <file.h> in the last two.
Candidates(env, l, file) ==
    LET dirs == (IF l.quoted THEN << path_dir(file), env.cwd >> ELSE <<>>) \o << <<>>, << "lib" >> >>
    IN [d \in DOMAIN dirs |-> path_resolve(dirs[d], l.path)]
FoundIn(env, f) == f \in DOMAIN env.disk /\ env.disk[f] # <<>> /\ Len(f) <= FS_NAME_MAX

\* r: the macros, the lines of output with their origin, whether it failed.
RECURSIVE RefFile(_, _, _, _), RefLines(_, _, _, _, _, _)
RefFile(env, r, file, depth) == RefLines(env, r, file, depth, 1, {})

RefLines(env, r, file, depth, i, held) ==
    LET ls == env.disk[file]
        l == ls[i]
        sel == Selected(ls, held, i)
        paths == Candidates(env, l, file)
        there == {c \in DOMAIN paths : FoundIn(env, paths[c])}
        skipped == env.skip_stdio /\ l.path = Rel(<< "stdio.c" >>)
        done == CASE l.k = "include" /\ sel /\ ~skipped ->
                       IF there = {} \/ depth + 1 >= PP_MAX_DEPTH THEN [r EXCEPT !.fail = TRUE]
                       ELSE RefFile(env, r, paths[Min(there)], depth + 1)
                  [] l.k = "define" /\ sel -> [r EXCEPT !.ms = (l.x :> l.m) @@ @]
                  [] l.k = "undef" /\ sel -> [r EXCEPT !.ms = [y \in DOMAIN @ \ {l.x} |-> @[y]]]
                  [] l.k = "text" /\ sel ->
                       [r EXCEPT !.out = Append(@, [file |-> file, line |-> i, ts |-> Expanded(r.ms, l.ts, [file |-> file, line |-> i])])]
                  [] OTHER -> r
    IN IF i > Len(ls) \/ r.fail THEN r
       ELSE RefLines(env, done, file, depth, i + 1, IF IsHead(l) /\ Holds(r.ms, l) THEN held \cup {i} ELSE held)

MeaningOf(env) == RefFile(env, [ms |-> <<>>, out |-> <<>>, fail |-> FALSE], env.file, 0)
Unspaced(ts) == SelectSeq(ts, LAMBDA t: t # Blank)
Size(out) == FoldLeft(LAMBDA n, o: n + Len(o.ts) + 1, 0, out)

\* A preprocessed file is what C says: the lines every condition around them
\* selects, from the files the search order finds, with the macros of that
\* point expanded.  It is refused when a file is missing or nested too deep,
\* or when it does not fit the buffer, and not for less.
PreprocessedMeansC ==
    pstep \in {"done", "refused"} =>
        LET r == MeaningOf(psrc)
        IN /\ pstep = "refused" => r.fail \/ Size(r.out) + PP_MAX_DEPTH + 1 >= PP_OUT_MAX
           /\ r.fail \/ Size(r.out) > PP_OUT_MAX => pstep = "refused"
           /\ pstep = "done" => /\ Len(pp.out) = Len(r.out)
                                /\ \A k \in DOMAIN r.out : Unspaced(pp.out[k]) = Unspaced(r.out[k].ts)

\* The line map, which every diagnostic goes through, gives each line of the
\* output the file and line it came from, for as many lines and files as the
\* map has room for.
LineMapNamesOrigin ==
    pstep = "done" =>
        LET out == MeaningOf(psrc).out
            first(k) == Cardinality({out[j].file : j \in 1 .. k})
            firstOf(f) == Min({j \in DOMAIN out : out[j].file = f})
        IN /\ Len(pp.lm) = IF Len(out) < MAX_LM_LINES THEN Len(out) ELSE MAX_LM_LINES
           /\ \A k \in DOMAIN pp.lm : /\ pp.lm[k][2] = out[k].line
                                      /\ first(firstOf(out[k].file)) <= MAX_LM_FILES => pp.lm_files[pp.lm[k][1]] = out[k].file
=============================================================================
