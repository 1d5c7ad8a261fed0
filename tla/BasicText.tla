------------------------------ MODULE BasicText ------------------------------
(***************************************************************************)
(* How the Basic interpreter reads a statement (ubasic.c, ubasic_call.c,    *)
(* ubasic_cvars.c, tokenizer.c): token by token out of a file, of which a   *)
(* block is in the buffer (behaviour_ubasic_access.h).  A program is a list *)
(* of statements; Source writes it down as tokens, which the interpreter    *)
(* takes apart again, and Meaning says what it is to print and to call.     *)
(* A token is taken as one character of the file, a number as its base and  *)
(* its digits, a string as the list of its characters.  Arrays, DATA lines   *)
(* and strings are there as with UBASIC_ARRAY, UBASIC_DATA and UBASIC_STRING *)
(* set, but no arrays of strings; strings stay within MAX_STRINGLEN.        *)
(***************************************************************************)
EXTENDS Integers, Sequences, SequencesExt, FiniteSets, Bitwise

CONSTANTS
    Programs,               \* records: main and sub, a subprogram, are lists of statements
    SD_BLOCK_SIZE,
    PADDED                  \* files are filled up with zeros to whole blocks, behind at least one

VARIABLES
    bt,                     \* the interpreter
    tk                      \* a text and the keyword found in it

MAX_NUMLEN == [base \in {2, 10, 16} |-> CASE base = 2 -> 16 [] base = 10 -> 5 [] base = 16 -> 4]
REMOTE_CALL_MAX_PARAM == 3
SUB_LINE == <<10, 5, 0, 0>>         \* the number of the subprogram's first line

(* int16_t *)
Int16(x) == ((x + 32768) % 65536) - 32768
Abs(x) == IF x < 0 THEN -x ELSE x
Quotient(x, y) == IF (x < 0) = (y < 0) THEN Abs(x) \div Abs(y) ELSE -(Abs(x) \div Abs(y))

(* & and | of two numbers, by their bits. *)
Bits(x) == x % 65536
Apply(op, x, y) ==
    Int16(CASE op = "+" -> x + y
            [] op = "-" -> x - y
            [] op = "*" -> x * y
            [] op = "/" -> Quotient(x, y)
            [] op = "mod" -> x - y * Quotient(x, y)
            [] op = "&" -> Bits(x) & Bits(y)
            [] op = "|" -> Bits(x) | Bits(y)
            [] op = "xor" -> Bits(x) ^^ Bits(y)
            [] op = "shl" -> x * 2^y
            [] op = "shr" -> x \div 2^y)
Holds(op, x, y) ==
    CASE op = "<" -> x < y [] op = ">" -> x > y [] op = "=" -> x = y
      [] op = "<=" -> x <= y [] op = ">=" -> x >= y [] op = "<>" -> x # y

(* strcmp, atoi and strstr; what STR writes, with nothing for 0. *)
strcmp(a, b) ==
    LET At(x, i) == IF i \in DOMAIN x THEN x[i] ELSE 0
        apart == {i \in DOMAIN a \cup DOMAIN b : At(a, i) # At(b, i)}
        i == CHOOSE k \in apart : \A j \in apart : k <= j
    IN  IF apart = {} THEN 0 ELSE At(a, i) - At(b, i)
Digit(c) == c \in 48 .. 57
atoi(a) == LET n == CHOOSE k \in 0 .. Len(a) : (\A i \in 1 .. k : Digit(a[i])) /\ (k < Len(a) => ~Digit(a[k + 1]))
               sum[i \in 0 .. Len(a)] == IF i = 0 THEN 0 ELSE 10 * sum[i - 1] + a[i] - 48
           IN  Int16(sum[n])
strstr(a, b) == LET found == {i \in 0 .. Len(a) - Len(b) : SubSeq(a, i + 1, i + Len(b)) = b}
                IN  IF found = {} THEN -1 ELSE CHOOSE i \in found : \A j \in found : i <= j
RECURSIVE Decimal(_)
Decimal(n) == IF n = 0 THEN <<>> ELSE Append(Decimal(n \div 10), 48 + (n % 10))
Cased(a, from, to) == [i \in DOMAIN a |-> IF a[i] \in from .. from + 25 THEN a[i] - from + to ELSE a[i]]
MAX_STRINGLEN == 40

Products == {"*", "/", "mod"}
Sums == {"+", "-", "&", "|", "xor", "shl", "shr"}
Relations == {"<", ">", "=", "<=", ">=", "<>"}

(* The functions of the table callfunct and the variables of cvars. *)
Functions_ == [bot_speed |-> "2INT16", beh_active |-> "BEH", beh_result |-> "BEH", RC |-> "RC"]
CVars == {"sensDistL", "sensDoor"}

-----------------------------------------------------------------------------
(* Programs as text. *)
Tok(t) == [t |-> t, v |-> <<>>]
Num(digits) == [t |-> "number", v |-> digits]
Name(name) == [t |-> "string", v |-> <<name>>]
Var(name) == [t |-> "variable", v |-> <<name>>]
StrVar(name) == [t |-> "stringvar", v |-> <<name>>]
Toks(ts) == [i \in DOMAIN ts |-> Tok(ts[i])]
CR == Tok("cr")
NUL == Tok("nul")

(* An operand of op in brackets where it needs them.  A sign takes all that   *)
(* follows, so it always stands in brackets of its own.                     *)
StringForms == {"lit", "strvar", "left", "right", "mid", "chr", "str", "upper", "lower", "cat"}
RECURSIVE Write(_)
Write(e) ==
    LET In(x, ops) == IF x[1] \in ops THEN Toks(<<"(">>) \o Write(x) \o Toks(<<")">>) ELSE Write(x)
    IN  CASE e[1] = "num" -> <<Num(e[2])>>
          [] e[1] = "var" -> <<Var(e[2])>>
          [] e[1] = "lit" -> <<[t |-> "string", v |-> <<e[2]>>]>>
          [] e[1] = "strvar" -> <<StrVar(e[2])>>
          [] e[1] = "cat" -> Write(e[2]) \o Toks(<<"+">>) \o Write(e[3])
          [] e[1] \in {"len", "val", "asc", "instr", "left", "right", "mid", "chr", "str", "upper", "lower"} ->
                Toks(<<e[1], "(">>) \o Tail(FlattenSeq([i \in 1 .. Len(e) - 1 |-> Toks(<<",">>) \o Write(e[i + 1])]))
                \o Toks(<<")">>)
          [] e[1] = "at" -> <<Var(e[2])>> \o Toks(<<"(">>) \o Write(e[3]) \o Toks(<<")">>)
          [] e[1] = "neg" -> Toks(<<"(", "-">>) \o Write(e[2]) \o Toks(<<")">>)
          [] e[1] \in {"abs", "not"} -> Toks(<<e[1], "(">>) \o Write(e[2]) \o Toks(<<")">>)
          [] e[1] = "vpeek" -> Toks(<<"vpeek", "(">>) \o <<Name(e[2])>> \o Toks(<<")">>)
          [] e[1] \in Products -> In(e[2], Sums) \o Toks(<<e[1]>>) \o In(e[3], Sums \cup Products)
          [] e[1] \in Sums -> Write(e[2]) \o Toks(<<e[1]>>) \o In(e[3], Sums)

RECURSIVE Source(_)
Source(x) ==
    LET Conditions == FlattenSeq([i \in DOMAIN x[2] |->
            LET c == x[2][i]
            IN  (IF i = 1 THEN <<>> ELSE Toks(<<c[1]>>)) \o Write(c[3]) \o Toks(<<c[2]>>) \o Write(c[4])])
        Params(es) == FlattenSeq([i \in DOMAIN es |-> Toks(<<",">>) \o Write(es[i])])
        Listed(es) == Tail(Params(es))
        Lines(xs) == FlattenSeq([i \in DOMAIN xs |-> Source(xs[i]) \o <<CR>>])
    IN  CASE x[1] = "let" -> <<Var(x[2])>> \o Toks(<<"=">>) \o Write(x[3])
          [] x[1] = "lets" -> <<StrVar(x[2])>> \o Toks(<<"=">>) \o Write(x[3])
          [] x[1] = "print" -> Toks(<<"print">>) \o Write(x[2]) \o Toks(<<",">>) \o Write(x[3])
          [] x[1] = "rem" -> Toks(<<"rem", "data", "else">>)
          [] x[1] = "dim" -> Toks(<<"dim">>) \o Write(<<"at", x[2], x[3]>>)
          [] x[1] = "put" -> Write(x[2]) \o Toks(<<"=">>) \o Write(x[3])
          [] x[1] = "data" -> Toks(<<"data">>) \o Tail(FlattenSeq([i \in DOMAIN x[2] |->
                                  Toks(IF x[2][i] < 0 THEN <<",", "-">> ELSE <<",">>) \o <<Num(<<10, Abs(x[2][i])>>)>>]))
          [] x[1] = "read" -> Toks(<<"read">>) \o Listed(x[2])
          [] x[1] = "restore" -> Toks(<<"restore">>)
          [] x[1] = "vpoke" -> Toks(<<"vpoke", "(">>) \o <<Name(x[2])>> \o Toks(<<")", "=">>) \o Write(x[3])
          [] x[1] = "call" -> Toks(<<"call", "(">>) \o <<Name(x[2])>> \o Params(x[3]) \o Toks(<<")">>)
          [] x[1] = "rc" -> Toks(<<"call", "(">>) \o <<Name("RC")>> \o Toks(<<",">>) \o <<Name(x[2])>>
                            \o Params(x[3]) \o Toks(<<")">>)
          [] x[1] = "gosub" -> Toks(<<"gosub">>) \o <<Num(SUB_LINE)>>
          [] x[1] = "short" -> Toks(<<"if">>) \o Conditions \o Source(x[3])
          [] x[1] = "if" -> Toks(<<"if">>) \o Conditions \o Toks(<<"then">>) \o Source(x[3])
                            \o Toks(<<"else">>) \o Source(x[4])
          [] x[1] = "for" -> Toks(<<"for">>) \o <<Var(x[2])>> \o Toks(<<"=">>) \o Write(x[3])
                             \o Toks(<<IF x[5] > 0 THEN "to" ELSE "downto">>) \o Write(x[4])
                             \o (IF Abs(x[5]) = 1 THEN <<>> ELSE Toks(<<"step">>) \o <<Num(<<10, Abs(x[5])>>)>>)
                             \o <<CR>> \o Lines(x[6]) \o Toks(<<"next">>) \o <<Var(x[2])>>
          [] x[1] = "seq" -> Lines(x[2])

File(program) ==
    LET text == Source(<<"seq", program.main>>)
                \o (IF program.sub = <<>> THEN <<>>
                    ELSE Toks(<<"end">>) \o <<CR, Num(SUB_LINE)>> \o Source(<<"seq", program.sub>>)
                         \o Toks(<<"return">>) \o <<CR>>)
        size == (Len(text) \div SD_BLOCK_SIZE + 1) * SD_BLOCK_SIZE
    IN  IF PADDED THEN text \o [i \in 1 .. size - Len(text) |-> NUL] ELSE text

-----------------------------------------------------------------------------
(* What a program means: m has the variables, and what was printed and called; *)
(* data are the numbers of all its DATA lines, in order.                    *)
Value(digits) ==
    LET sum[i \in DOMAIN digits] == IF i = 1 THEN 0 ELSE digits[1] * sum[i - 1] + digits[i]
    IN  Int16(sum[Len(digits)])

RECURSIVE Of(_, _)
Of(e, m) ==
    CASE e[1] = "num" -> Value(e[2])
      [] e[1] = "var" -> m.vars[e[2]]
      [] e[1] = "lit" -> e[2]
      [] e[1] = "strvar" -> m.strs[e[2]]
      [] e[1] = "cat" -> Of(e[2], m) \o Of(e[3], m)
      [] e[1] = "left" -> SubSeq(Of(e[2], m), 1, Of(e[3], m))
      [] e[1] = "right" -> LET a == Of(e[2], m) IN SubSeq(a, Len(a) - Of(e[3], m) + 1, Len(a))
      [] e[1] = "mid" -> SubSeq(Of(e[2], m), Of(e[3], m) + 1, Of(e[3], m) + Of(e[4], m))
      [] e[1] = "chr" -> <<Of(e[2], m)>>
      [] e[1] = "str" -> Decimal(Of(e[2], m))
      [] e[1] = "upper" -> Cased(Of(e[2], m), 97, 65)
      [] e[1] = "lower" -> Cased(Of(e[2], m), 65, 97)
      [] e[1] = "len" -> Len(Of(e[2], m))
      [] e[1] = "val" -> atoi(Of(e[2], m))
      [] e[1] = "asc" -> Of(e[2], m)[1]
      [] e[1] = "instr" -> strstr(Of(e[2], m), Of(e[3], m))
      [] e[1] = "at" -> m.arrays[e[2]][Of(e[3], m) + 1]
      [] e[1] = "vpeek" -> m.cvars[e[2]]
      [] e[1] = "neg" -> Int16(-Of(e[2], m))
      [] e[1] = "abs" -> Int16(Abs(Of(e[2], m)))
      [] e[1] = "not" -> -Of(e[2], m) - 1
      [] OTHER -> Apply(e[1], Of(e[2], m), Of(e[3], m))

(* "and" and "or" are taken from the left. *)
AllOf(cs, m) == FoldLeft(LAMBDA b, c : LET x == Of(c[3], m)
                                           y == Of(c[4], m)
                                           h == IF c[3][1] \in StringForms THEN Holds(c[2], strcmp(x, y), 0)
                                                ELSE Holds(c[2], x, y)
                                       IN  IF c[1] = "and" THEN b /\ h ELSE b \/ h, FALSE, cs)

Says(m, what) == [m EXCEPT !.out = Append(@, what)]
Put(m, x, v) == IF x[1] = "var" THEN [m EXCEPT !.vars[x[2]] = v]
                ELSE [m EXCEPT !.arrays[x[2]][Of(x[3], m) + 1] = v]

RECURSIVE Does(_, _, _)
Does(x, sub, m) ==
    LET All(xs, n) == FoldLeft(LAMBDA k, y : Does(y, sub, k), n, xs)
        Shown(e) == IF e[1] \in StringForms THEN Of(e, m) ELSE <<Of(e, m)>>
        OfAll(es) == [i \in DOMAIN es |-> Of(es[i], m)]
    IN  CASE x[1] = "let" -> [m EXCEPT !.vars[x[2]] = Of(x[3], m)]
          [] x[1] = "lets" -> [m EXCEPT !.strs[x[2]] = Of(x[3], m)]
          [] x[1] = "print" -> Says(Says(m, <<"print", Shown(x[2])>>), <<"print", Shown(x[3])>>)
          [] x[1] \in {"rem", "data"} -> m
          [] x[1] = "dim" -> [m EXCEPT !.arrays[x[2]] = [i \in 1 .. Of(x[3], m) |-> 0]]
          [] x[1] = "put" -> Put(m, x[2], Of(x[3], m))
          [] x[1] = "read" -> FoldLeft(LAMBDA k, y : Put([k EXCEPT !.read = @ + 1], y, k.data[k.read + 1]), m, x[2])
          [] x[1] = "restore" -> [m EXCEPT !.read = 0]
          [] x[1] = "vpoke" -> [m EXCEPT !.cvars[x[2]] = Of(x[3], m)]
          [] x[1] = "call" -> Says(m, <<x[2], OfAll(x[3])>>)
          [] x[1] = "rc" -> Says(m, <<x[2], OfAll(x[3]) \o [i \in 1 .. REMOTE_CALL_MAX_PARAM - Len(x[3]) |-> 0]>>)
          [] x[1] = "gosub" -> All(sub, m)
          [] x[1] = "short" -> IF AllOf(x[2], m) THEN Does(x[3], sub, m) ELSE m
          [] x[1] = "if" -> IF AllOf(x[2], m) THEN Does(x[3], sub, m) ELSE Does(x[4], sub, m)
          [] x[1] = "for" ->
                LET RECURSIVE Round(_)
                    Round(n) == LET done == All(x[6], n)
                                    i == Int16(done.vars[x[2]] + x[5])
                                    counted == [done EXCEPT !.vars[x[2]] = i]
                                IN  IF (x[5] > 0 /\ i <= Of(x[4], m)) \/ (x[5] < 0 /\ i >= Of(x[4], m))
                                    THEN Round(counted) ELSE counted
                IN  Round([m EXCEPT !.vars[x[2]] = Of(x[3], m)])

NoVars == [vars |-> [v \in {"i", "n"} |-> 0], arrays |-> [v \in {"i", "n", "a"} |-> <<>>],
           strs |-> [v \in {"s", "t"} |-> <<>>], cvars |-> [v \in CVars |-> 0], out |-> <<>>, read |-> 0, data |-> <<>>]
Meaning(program) ==
    LET data == FlattenSeq([i \in DOMAIN program.main |->
                    IF program.main[i][1] = "data" THEN program.main[i][2] ELSE <<>>])
    IN  FoldLeft(LAMBDA m, x : Does(x, program.sub, m), [NoVars EXCEPT !.data = data], program.main)

-----------------------------------------------------------------------------
(* _ubasic_update_ptr: the read of a block brings what there is of it. *)
Move(r, offset) ==
    LET block == offset \div SD_BLOCK_SIZE
        Read == [i \in 1 .. SD_BLOCK_SIZE |->
                    LET at == (block * SD_BLOCK_SIZE) + i IN IF at <= Len(r.file) THEN r.file[at] ELSE r.buffer[i]]
    IN  [r EXCEPT !.ptr = offset,
                  !.buffer = IF r.ptr >= 0 /\ block = r.ptr \div SD_BLOCK_SIZE THEN @ ELSE Read]
ubasic_get_content(r) == r.buffer[(r.ptr % SD_BLOCK_SIZE) + 1]
ubasic_is_eof(r) == ubasic_get_content(r) = NUL
ubasic_incr_ptr(r) == Move(r, r.ptr + 1)

RECURSIVE skip_all_whitespaces(_)
skip_all_whitespaces(r) ==
    IF ubasic_get_content(r) = CR THEN skip_all_whitespaces(ubasic_incr_ptr(r)) ELSE r

(* get_next_token: a number with too many digits is an error. *)
TooLong(c) == c.t = "number" /\ Len(c.v) - 1 > MAX_NUMLEN[c.v[1]]
Took(r, c) == [ubasic_incr_ptr(r) EXCEPT !.tok = IF TooLong(c) THEN Tok("error") ELSE c,
                                         !.num = IF c.t = "number" THEN Value(c.v) ELSE @]
get_next_token(r) ==
    IF ubasic_is_eof(r) THEN [r EXCEPT !.tok = Tok("endofinput")] ELSE Took(r, ubasic_get_content(r))

tokenizer_finished(r) == ubasic_is_eof(r) \/ r.tok.t = "endofinput"
tokenizer_next(r) ==
    IF tokenizer_finished(r) THEN r
    ELSE get_next_token([r EXCEPT !.line = IF r.tok = CR THEN r.ptr ELSE @])

RECURSIVE SkipLine(_)
SkipLine(r) == IF ubasic_get_content(r) \in {CR, NUL} THEN r ELSE SkipLine(ubasic_incr_ptr(r))
BeginsLine(r) == get_next_token([r EXCEPT !.line = r.ptr])
jump_to_next_linenum(r) == BeginsLine(skip_all_whitespaces(SkipLine(r)))
jump_to_prog_text_pointer(r, offset) == get_next_token(Move(r, offset))
tokenizer_init(r) ==
    get_next_token(skip_all_whitespaces([Move(r, 0) EXCEPT !.line = 0, !.num = -1]))

Is(r, t) == r.tok.t = t
ubasic_break(r) == jump_to_next_linenum([r EXCEPT !.ended = TRUE, !.failed = TRUE])
ubasic_accept(r, t) == tokenizer_next(IF Is(r, t) THEN r ELSE ubasic_break(r))
Accept(r, t, u) == ubasic_accept(ubasic_accept(r, t), u)

-----------------------------------------------------------------------------
(* Expressions: the state of the reader behind them is r, their value v.     *)
Result(r, v) == [r |-> r, v |-> v]
Opened(r, t) == Accept(r, t, "(")
Closed(x, v) == Result(ubasic_accept(x.r, ")"), v)
Bracketed(x) == Closed(x, x.v)

(* search_cvars fails for an unknown name. *)
vpeek_expression(r) ==
    LET s == Opened(r, "vpeek")
        name == s.tok.v[1]
        t == tokenizer_next(s)
    IN  IF name \in CVars THEN Closed(Result(t, 0), r.cvars[name])
        ELSE Closed(Result(ubasic_break(t), 0), 0)

(* A variable, or one element of an array; an index below 0 is not found out. *)
ubasic_set_variable(r, var, value) ==
    IF r.arrays[var[1]] = <<>> THEN [r EXCEPT !.vars[var[1]] = value]
    ELSE [r EXCEPT !.arrays[var[1]][var[2] + 1] = value]
ubasic_get_variable(r, var) ==
    IF r.arrays[var[1]] = <<>> THEN r.vars[var[1]] ELSE r.arrays[var[1]][var[2] + 1]

RECURSIVE factor(_), Factors(_), Product(_, _, _), term(_), Terms(_), Sum_(_, _, _), ubasic_expr(_)
RECURSIVE varfactor(_), ubasic_get_varinfo(_, _), StringNumber(_), Number(_, _)
RECURSIVE strexpr(_), Strings(_), Joined(_, _), strfactor(_), StringPart(_, _), Cut(_, _)

ubasic_get_strvariable(r, name) == r.strs[name]
ubasic_set_strvariable(r, name, str) == [r EXCEPT !.strs[name] = str]

(* A string expression ends up in str_buf. *)
Buffers(x) == Result([x.r EXCEPT !.str_buf = x.v], x.v)
Concatenated(v, x) == Result(x.r, v \o x.v)
Strings(x) == IF Is(x.r, "+") THEN Joined(x.v, tokenizer_next(x.r)) ELSE Buffers(x)
Joined(v, r) == Strings(Concatenated(v, strfactor(r)))
strexpr(r) == Joined(<<>>, r)

(* The functions work on what str_buf has by then; one that is asked for more *)
(* than there is returns all of it.  Anything else would be NULL.           *)
Buffered(r, v) == Result(ubasic_accept([r EXCEPT !.str_buf = v], ")"), v)
Letters(f, x) == Buffered(x.r, IF f = "upper" THEN Cased(x.v, 97, 65) ELSE Cased(x.v, 65, 97))
Written(f, n) == Buffered(n.r, IF f = "chr" THEN <<n.v>> ELSE Decimal(n.v))
Side(f, n) ==
    LET s == n.r.str_buf
    IN  Buffered(n.r, CASE n.v > Len(s) -> s
                        [] n.v <= Len(s) /\ f = "left" -> SubSeq(s, 1, n.v)
                        [] n.v <= Len(s) /\ f = "right" -> SubSeq(s, Len(s) - n.v + 1, Len(s)))
Middle(n, k) ==
    LET s == k.r.str_buf
    IN  Buffered(k.r, IF k.v > Len(s) - n.v THEN s ELSE SubSeq(s, n.v + 1, n.v + k.v))
Cut(f, n) == IF f = "mid" THEN Middle(n, ubasic_expr(ubasic_accept(n.r, ","))) ELSE Side(f, n)
StringPart(f, x) == IF f \in {"upper", "lower"} THEN Letters(f, x) ELSE Cut(f, ubasic_expr(ubasic_accept(x.r, ",")))

strfactor(r) ==
    CASE Is(r, "(") -> Bracketed(strexpr(ubasic_accept(r, "(")))
      [] Is(r, "string") -> Result(tokenizer_next(r), r.tok.v[1])
      [] Is(r, "stringvar") -> Result(ubasic_accept(r, "stringvar"), ubasic_get_strvariable(r, r.tok.v[1]))
      [] r.tok.t \in {"chr", "str"} -> Written(r.tok.t, ubasic_expr(Opened(r, r.tok.t)))
      [] r.tok.t \in {"left", "right", "mid", "upper", "lower"} -> StringPart(r.tok.t, strexpr(Opened(r, r.tok.t)))
      [] OTHER -> Result(r, <<>>)

(* Numbers that are asked of strings. *)
Place(x, y) == Closed(y, strstr(x.v, y.v))
Number(f, x) ==
    IF f = "instr" THEN Place(x, strexpr(ubasic_accept(x.r, ",")))
    ELSE Closed(x, CASE f = "len" -> Len(x.v) [] f = "val" -> atoi(x.v) [] f = "asc" -> x.v[1])
StringNumber(r) ==
    IF Is(r, "maxstrlen") THEN Result(ubasic_accept(r, "maxstrlen"), MAX_STRINGLEN)
    ELSE Number(r.tok.t, strexpr(Opened(r, r.tok.t)))

Element(name, x) ==
    Result(IF x.v < Len(x.r.arrays[name]) THEN ubasic_accept(x.r, ")") ELSE ubasic_break(x.r), <<name, x.v>>)
ubasic_get_varinfo(r, name) ==
    IF r.arrays[name] = <<>> THEN Result(r, <<name, 0>>) ELSE Element(name, ubasic_expr(ubasic_accept(r, "(")))

(* varfactor: the name of the variable outlasts its token. *)
Fetched(x) == Result(x.r, ubasic_get_variable(x.r, x.v))
varfactor(r) == Fetched(ubasic_get_varinfo(ubasic_accept(r, "variable"), r.tok.v[1]))

Negated(x) == Result(x.r, Int16(-x.v))
Absolute(x) == Closed(x, Int16(Abs(x.v)))
Inverted(x) == Closed(x, -x.v - 1)
factor(r) ==
    CASE Is(r, "number") -> Result(ubasic_accept(r, "number"), r.num)
      [] Is(r, "-") -> Negated(ubasic_expr(ubasic_accept(r, "-")))
      [] Is(r, "+") -> ubasic_expr(ubasic_accept(r, "+"))
      [] Is(r, "(") -> Bracketed(ubasic_expr(ubasic_accept(r, "(")))
      [] Is(r, "abs") -> Absolute(ubasic_expr(Opened(r, "abs")))
      [] Is(r, "not") -> Inverted(ubasic_expr(Opened(r, "not")))
      [] Is(r, "vpeek") -> vpeek_expression(r)
      [] r.tok.t \in {"len", "val", "asc", "instr", "maxstrlen"} -> StringNumber(r)
      [] Is(r, "variable") -> varfactor(r)
      [] OTHER -> Result(ubasic_accept(r, "variable"), 0)

(* The loops of term and ubasic_expr: v is what they have so far, op is to be *)
(* done with it next; at first there is nothing.                            *)
Applied(op, v, x) == Result(x.r, IF op = "none" THEN x.v ELSE Apply(op, v, x.v))
Factors(x) == IF x.r.tok.t \in Products THEN Product(x.r.tok.t, x.v, tokenizer_next(x.r)) ELSE x
Product(op, v, r) == Factors(Applied(op, v, factor(r)))
term(r) == Product("none", 0, r)
Terms(x) == IF x.r.tok.t \in Sums THEN Sum_(x.r.tok.t, x.v, tokenizer_next(x.r)) ELSE x
Sum_(op, v, r) == Terms(Applied(op, v, term(r)))
ubasic_expr(r) == Sum_("none", 0, r)

(* relation: the token in the middle is skipped, whatever it is. *)
Compared(x, y) == Result(y.r, IF x.r.tok.t \in Relations THEN Holds(x.r.tok.t, x.v, y.v) ELSE x.v # 0)
Compares(x) == Compared(x, ubasic_expr(tokenizer_next(x.r)))
relation(r) == Compares(ubasic_expr(r))

StrCompared(x, y) == Result(y.r, x.r.tok.t \in Relations /\ Holds(x.r.tok.t, strcmp(x.v, y.v), 0))
StrCompares(x) == StrCompared(x, strexpr(tokenizer_next(x.r)))
strrelation(r) == StrCompares(strexpr(r))

(* The first token that tells decides; upper, lower and instr do not. *)
RECURSIVE ubasic_is_strexpr(_)
ubasic_is_strexpr(r) ==
    \/ r.tok.t \in {"string", "stringvar", "left", "right", "mid", "chr", "str"}
    \/ /\ r.tok.t \notin {"string", "stringvar", "left", "right", "mid", "chr", "str"}
       /\ r.tok.t \notin {"cr", "and", "or", "variable", "number", "len", "val", "asc", "abs", "not", "vpeek", "endofinput"}
       /\ ubasic_is_strexpr(tokenizer_next(r))
Comparison(r) == IF ubasic_is_strexpr(r) THEN strrelation(r) ELSE relation(r)

RECURSIVE Linked(_), Conditions(_, _, _)
Both(op, v, x) == Result(x.r, CASE op = "and" -> v /\ x.v [] op = "or" -> v \/ x.v [] op = "none" -> x.v)
Linked(x) == IF x.r.tok.t \in {"and", "or"} THEN Conditions(x.r.tok.t, x.v, tokenizer_next(x.r)) ELSE x
Conditions(op, v, r) == Linked(Both(op, v, Comparison(r)))

-----------------------------------------------------------------------------
(* A statement goes on with the result of an expression.                    *)
Then(x, Goes(_, _)) == Goes(x.r, x.v)

let_statement(r) ==
    IF Is(r, "stringvar")
    THEN Then(strexpr(Accept(r, "stringvar", "=")), LAMBDA s, v : ubasic_set_strvariable(s, r.tok.v[1], v))
    ELSE Then(ubasic_get_varinfo(ubasic_accept(r, "variable"), r.tok.v[1]), LAMBDA s, var :
             Then(ubasic_expr(ubasic_accept(s, "=")), LAMBDA t, v : ubasic_set_variable(t, var, v)))

(* A new array has zeros, also where there was one before. *)
dim_statement(r) ==
    LET s == ubasic_accept(r, "dim")
    IN  Then(ubasic_expr(Accept(s, "variable", "(")), LAMBDA t, n :
            [Accept(t, ")", "cr") EXCEPT !.arrays[s.tok.v[1]] = [i \in 1 .. n |-> 0]])

-----------------------------------------------------------------------------
(* DATA lines: data.first and data.current are places in the text, the       *)
(* second behind the number that was read last.                             *)
NoPlace == [ptr |-> 0, tok |-> NUL]
tokenizer_get_position(r) == [ptr |-> r.ptr, tok |-> r.tok]
tokenizer_set_position(r, pos) == [Move(r, pos.ptr) EXCEPT !.tok = pos.tok]

RECURSIVE ToData(_)
ToData(r) ==
    LET Ahead(s) == IF Is(s, "data") \/ tokenizer_finished(s) THEN s ELSE ToData(s)
    IN  Ahead(IF Is(r, "rem") THEN jump_to_next_linenum(r) ELSE tokenizer_next(r))

ubasic_search_data(r) ==
    LET Found(s, here) ==
            IF tokenizer_finished(s) THEN ubasic_break(s)
            ELSE [s EXCEPT !.data = [first |-> IF @.first = NoPlace THEN here ELSE @.first, current |-> here]]
        Search_(s) == Found(s, tokenizer_get_position(s))
    IN  tokenizer_set_position(Search_(ToData(r)), tokenizer_get_position(r))

Negative(r) ==
    LET Number_(s) == IF Is(s, "number") THEN s ELSE ubasic_break(s)
    IN  [Number_(ubasic_accept(r, "-")) EXCEPT !.num = Int16(-@)]

(* Behind the last number of a line the next line is searched from there. *)
RECURSIVE ToDatum(_)
ToDatum(r) ==
    LET Onward(s) == IF Is(s, "number") \/ tokenizer_finished(s) THEN s ELSE ToDatum(s)
        NextLineOf(s) == tokenizer_next(tokenizer_set_position(s, s.data.current))
    IN  CASE Is(r, ",") -> Onward(tokenizer_next(r))
          [] Is(r, "cr") -> Onward(NextLineOf(ubasic_search_data(r)))
          [] Is(r, "-") -> Onward(Negative(r))
          [] OTHER -> r

(* The number is left in num. *)
ubasic_next_data(r) ==
    LET From(s) == ToDatum(tokenizer_next(tokenizer_set_position(s, s.data.current)))
        Back(s) == tokenizer_set_position(s, tokenizer_get_position(r))
        Taken(t) == IF tokenizer_finished(t) THEN Result(Back(ubasic_break(t)), FALSE)
                    ELSE Result(Back([t EXCEPT !.data.current = tokenizer_get_position(t)]), Is(t, "number"))
    IN  Taken(From(IF r.data.current = NoPlace THEN ubasic_search_data(r) ELSE r))

data_statement(r) ==
    LET here == tokenizer_get_position(r)
    IN  jump_to_next_linenum(IF r.data.first = NoPlace THEN [r EXCEPT !.data = [first |-> here, current |-> here]] ELSE r)

(* read_statement: the token behind a variable is skipped, be it a comma or  *)
(* the end of the line.                                                     *)
ReadOne(r) ==
    Then(ubasic_get_varinfo(tokenizer_next(r), r.tok.v[1]), LAMBDA s, var :
        Then(ubasic_next_data(s), LAMBDA t, found :
            tokenizer_next(ubasic_set_variable(IF found THEN t ELSE ubasic_break(t), var, t.num))))
RECURSIVE Reads(_)
Reads(r) ==
    LET Onward(s) == IF s.tok.t \in {"cr", "endofinput"} THEN s ELSE Reads(s)
    IN  IF r.tok.t \notin {"variable", ","} THEN r
        ELSE Onward(IF Is(r, "variable") THEN ReadOne(r) ELSE tokenizer_next(r))
read_statement(r) == Reads(ubasic_accept(r, "read"))

restore_statement(r) ==
    ubasic_accept(IF r.data.first = NoPlace THEN ubasic_search_data(r)
                  ELSE [r EXCEPT !.data.current = r.data.first], "restore")

RECURSIVE Prints(_)
Prints(r) ==
    CASE r.tok.t \in {"cr", "endofinput"} -> r
      [] r.tok.t \in {",", ";"} -> Prints(tokenizer_next(r))
      [] r.tok.t \in {"string", "stringvar", "left", "right", "mid", "chr", "lower", "upper", "str"} ->
            Prints(Then(strexpr(r), LAMBDA s, v : Says(s, <<"print", v>>)))
      [] r.tok.t \in {"variable", "(", "-", "+", "abs", "not", "vpeek", "len", "val", "asc", "maxstrlen", "instr", "number"} ->
            Prints(Then(ubasic_expr(r), LAMBDA s, v : Says(s, <<"print", <<v>>>>)))
      [] OTHER -> r
print_statement(r) == Prints(ubasic_accept(r, "print"))

rem_statement(r) == LET s == ubasic_accept(r, "rem") IN IF s.tok = CR THEN s ELSE jump_to_next_linenum(s)

vpoke_statement(r) ==
    LET s == Opened(r, "vpoke")
        name == s.tok.v[1]
    IN  IF name \notin CVars THEN ubasic_break(s)
        ELSE Then(ubasic_expr(Accept(tokenizer_next(s), ")", "=")), LAMBDA t, v : [t EXCEPT !.cvars[name] = v])

(* The parameters of a call, k of them. *)
RECURSIVE Params(_, _)
Params(x, k) ==
    IF k = 0 THEN x
    ELSE Params(Then(ubasic_expr(ubasic_accept(x.r, ",")), LAMBDA s, v : Result(s, Append(x.v, v))), k - 1)

(* VOID_FUNC_RC: as many as there are, and zeros for the rest. *)
RECURSIVE RcParams(_)
RcParams(x) ==
    IF Len(x.v) = REMOTE_CALL_MAX_PARAM THEN x
    ELSE IF Is(x.r, ")") THEN Result(x.r, x.v \o [i \in 1 .. REMOTE_CALL_MAX_PARAM - Len(x.v) |-> 0])
    ELSE RcParams(Params(x, 1))

call_statement(r) ==
    LET s == Opened(r, "call")
        name == s.tok.v[1]
        t == tokenizer_next(s)
        Done(x, what) == ubasic_accept(Says(x.r, <<what, x.v>>), ")")
    IN  CASE name \notin DOMAIN Functions_ -> ubasic_accept(ubasic_break(t), ")")
          [] name \in {"bot_speed"} -> Done(Params(Result(t, <<>>), 2), name)
          [] name \in {"beh_active", "beh_result"} -> Done(Result(t, <<>>), name)
          [] name = "RC" -> LET u == ubasic_accept(t, ",")
                            IN  Done(RcParams(Result(ubasic_accept(u, "string"), <<>>)), u.tok.v[1])

(* jump_linenum by searching; UBasic has the cache. *)
RECURSIVE Search(_, _)
Search(r, num) ==
    IF r.num = num \/ Is(r, "endofinput") THEN r
    ELSE LET RECURSIVE ToNumber(_)
             ToNumber(s) == IF s.tok.t \in {"number", "endofinput"} THEN s ELSE ToNumber(jump_to_next_linenum(s))
         IN  Search(ToNumber(jump_to_next_linenum(r)), num)
jump_linenum(r, num) == LET s == Search(tokenizer_init(r), num) IN IF Is(s, "endofinput") THEN ubasic_break(s) ELSE s

gosub_statement(r) ==
    Then(ubasic_expr(ubasic_accept(r, "gosub")), LAMBDA s, line :
        LET t == tokenizer_next(IF s.tok = CR THEN tokenizer_next(s) ELSE jump_to_next_linenum(s))
        IN  jump_linenum([t EXCEPT !.gosubs = Append(@, t.line)], line))
return_statement(r) ==
    LET s == ubasic_accept(r, "return")
    IN  IF s.gosubs = <<>> THEN ubasic_break(s)
        ELSE jump_to_prog_text_pointer([s EXCEPT !.gosubs = Front(@)], Last(s.gosubs))

Step(r) == IF Is(r, "step") THEN ubasic_expr(tokenizer_next(r)) ELSE Result(r, 1)
for_statement(r) ==
    LET s == ubasic_accept(r, "for")
        var == s.tok.v[1]
        Begun(behind, to, step, down) ==
            [behind EXCEPT !.loops = Append(@, [var |-> var, to |-> to, down |-> down, line |-> behind.line,
                                                step |-> IF down THEN Int16(-step) ELSE step])]
    IN  Then(ubasic_expr(Accept(s, "variable", "=")), LAMBDA t, from :
            Then(ubasic_expr(tokenizer_next([t EXCEPT !.vars[var] = from])), LAMBDA u, to :
                Then(Step(u), LAMBDA v, step : Begun(ubasic_accept(v, "cr"), to, step, Is(t, "downto")))))

next_statement(r) ==
    LET s == ubasic_accept(r, "next")
        Counted(t, loop, i) ==
            IF t.loops = <<>> \/ loop.var # s.tok.v[1] THEN ubasic_accept(t, "cr")
            ELSE IF (i <= loop.to /\ ~loop.down) \/ (i >= loop.to /\ loop.down)
            THEN jump_to_prog_text_pointer([t EXCEPT !.vars[loop.var] = i], loop.line)
            ELSE ubasic_accept([t EXCEPT !.vars[loop.var] = i, !.loops = Front(@)], "cr")
        Counts(t, loop) == Counted(t, loop, Int16(t.vars[loop.var] + loop.step))
        Ends(t) == Counts(t, Last(t.loops))
    IN  Ends(ubasic_accept(s, "variable"))

-----------------------------------------------------------------------------
RECURSIVE SkipBranch(_)
SkipBranch(r) == LET s == tokenizer_next(r) IN IF s.tok.t \in {"else", "cr", "endofinput"} THEN s ELSE SkipBranch(s)

RECURSIVE statement(_), if_statement(_), TrueBranch(_, _), FalseBranch(_, _)

(* if_statement: the branch that is taken, and what is skipped. *)
TrueBranch(r, no_then) ==
    LET Ends(s) == IF Is(s, "else") THEN jump_to_next_linenum(s) ELSE s
        Done(s) == Ends(IF no_then /\ Is(s, "else") THEN ubasic_break(s) ELSE s)
    IN  Done(statement(r))
FalseBranch(r, no_then) ==
    LET s == SkipBranch(r)
        t == IF no_then THEN ubasic_break(s) ELSE s
    IN  CASE Is(s, "else") -> statement(tokenizer_next(t))
          [] Is(s, "cr") -> tokenizer_next(s)
          [] OTHER -> s
if_statement(r) ==
    Then(Conditions("none", TRUE, ubasic_accept(r, "if")), LAMBDA s, holds :
        LET no_then == ~Is(s, "then")
            t == IF no_then THEN s ELSE ubasic_accept(s, "then")
        IN  IF holds THEN TrueBranch(t, no_then) ELSE FalseBranch(t, no_then))

statement(r) ==
    CASE Is(r, "print") -> print_statement(r)
      [] Is(r, "if") -> if_statement(r)
      [] Is(r, "gosub") -> gosub_statement(r)
      [] Is(r, "return") -> return_statement(r)
      [] Is(r, "for") -> for_statement(r)
      [] Is(r, "next") -> next_statement(r)
      [] Is(r, "end") -> [ubasic_accept(r, "end") EXCEPT !.ended = TRUE]
      [] Is(r, "call") -> call_statement(r)
      [] Is(r, "rem") -> rem_statement(r)
      [] Is(r, "vpoke") -> vpoke_statement(r)
      [] Is(r, "dim") -> dim_statement(r)
      [] Is(r, "data") -> data_statement(r)
      [] Is(r, "read") -> read_statement(r)
      [] Is(r, "restore") -> restore_statement(r)
      [] r.tok.t \in {"variable", "stringvar"} -> let_statement(r)
      [] OTHER -> ubasic_break(r)

NextLine(r) == IF r.tok = CR THEN tokenizer_next(skip_all_whitespaces(r)) ELSE r
line_statement(r) == statement(NextLine(IF Is(r, "number") THEN ubasic_accept(r, "number") ELSE r))

-----------------------------------------------------------------------------
(* ubasic_init; the buffer has what was last in it. *)
BasicTextInit ==
    \E program \in Programs :
        bt = tokenizer_init(
                [program |-> program, file |-> File(program), ptr |-> -1,
                 buffer |-> [i \in 1 .. SD_BLOCK_SIZE |-> Tok("print")], tok |-> NUL, num |-> 0, line |-> 0,
                 vars |-> NoVars.vars, arrays |-> NoVars.arrays, strs |-> NoVars.strs, str_buf |-> <<>>, cvars |-> NoVars.cvars, out |-> <<>>,
                 data |-> [first |-> NoPlace, current |-> NoPlace],
                 loops |-> <<>>, gosubs |-> <<>>, ended |-> FALSE, failed |-> FALSE])

ubasic_finished(r) == r.ended \/ tokenizer_finished(r)
ubasic_run == ~ubasic_finished(bt) /\ bt' = NextLine(line_statement(bt))

BasicTextNext == ubasic_run

(* A program has done what it means when it has ended, and has done no more   *)
(* of it, nor anything else, before (ubasic.c, tokenizer.c).                *)
ProgramsAreMeant ==
    LET m == Meaning(bt.program)
    IN  /\ IsPrefix(bt.out, m.out) /\ ~bt.failed
        /\ ubasic_finished(bt) => bt.out = m.out /\ bt.vars = m.vars /\ bt.strs = m.strs /\ bt.cvars = m.cvars
-----------------------------------------------------------------------------
(* How keywords are found (tokenizer.c): by a table made by another program  *)
(* (tokenizer_data.inc), a tree of pairs <<character, next place>>.  The     *)
(* list of the keywords and the search in it, which are not built, say what *)
(* the table has to find.                                                   *)
(* Characters are their codes.  Those of letters, and of the other ones.     *)
Alphabet == "abcdefghijklmnopqrstuvwxyz"
Signs == [c \in {"<", ">", "=", "+", "-", "*", "/", "%", "(", ")", "&", "|", ",", ";", ":", "$", " ", "\n"} |->
             CASE c = "\n" -> 10 [] c = " " -> 32 [] c = "$" -> 36 [] c = "%" -> 37 [] c = "&" -> 38
               [] c = "(" -> 40 [] c = ")" -> 41 [] c = "*" -> 42 [] c = "+" -> 43 [] c = "," -> 44
               [] c = "-" -> 45 [] c = "/" -> 47 [] c = ":" -> 58 [] c = ";" -> 59 [] c = "<" -> 60
               [] c = "=" -> 61 [] c = ">" -> 62 [] c = "|" -> 124]
Code(c) == IF c \in DOMAIN Signs THEN Signs[c]
           ELSE 96 + (CHOOSE i \in 1 .. 26 : SubSeq(Alphabet, i, i) = c)
Codes(word) == [i \in 1 .. Len(word) |-> Code(SubSeq(word, i, i))]

Upper(code) == IF code \in 97 .. 122 THEN code - 32 ELSE code
Lower(code) == IF code \in 65 .. 90 THEN code + 32 ELSE code

(* The tokens of the statements that are built, as the enumeration counts. *)
keywords ==
    << <<"let", 6>>, <<"print", 7>>, <<"if", 8>>, <<"then", 9>>, <<"else", 10>>, <<"for", 11>>, <<"to", 12>>,
       <<"downto", 13>>, <<"step", 14>>, <<"next", 15>>, <<"goto", 16>>, <<"gosub", 17>>, <<"return", 18>>,
       <<"end", 19>>, <<"abs", 20>>, <<"not", 21>>, <<"xor", 22>>, <<"shl", 23>>, <<"shr", 24>>, <<"call", 25>>,
       <<"vpoke", 26>>, <<"vpeek", 27>>, <<"rem", 28>>, <<"wait", 35>>, <<"or", 56>>, <<"and", 57>>,
       <<"mod", 58>>, <<"<=", 59>>, <<">=", 60>>, <<"<>", 61>>, <<"tab", 55>> >>

singlechar ==
    << <<"\n", 62>>, <<",", 63>>, <<":", 64>>, <<";", 65>>, <<"+", 66>>, <<"-", 67>>, <<"&", 68>>, <<"|", 69>>,
       <<"*", 70>>, <<"/", 71>>, <<"%", 72>>, <<"(", 73>>, <<")", 74>>, <<"<", 75>>, <<">", 76>>, <<"=", 77>> >>

aucAVRBasic ==
    <<
      10, 125, 14, 255, 255, 255, 255, 255, 255, 255, 255, 255, 255, 255, 255, 255, 255, 255, 255, 255,
      255, 255, 255, 255, 255, 255, 255, 255, 0, 4, 8, 255, 3, 2, 6, 10, 13, 9, 255, 5,
      255, 255, 255, 255, 255, 255, 255, 255, 255, 255, 12, 11, 19, 1, 15, 255, 255, 255, 255, 255,
      255, 255, 255, 255, 255, 255, 255, 255, 255, 255, 255, 255, 255, 255, 255, 255, 255, 255, 255, 255,
      255, 255, 255, 255, 255, 255, 255, 255, 255, 78, 255, 67, 149, 167, 164, 117, 255, 192, 255, 255,
      211, 31, 125, 46, 206, 255, 90, 132, 183, 25, 55, 51, 75, 255, 255, 255, 7, 0, 78, 0,
      77, 0, 74, 0, 73, 0, 72, 0, 71, 0, 70, 0, 69, 0, 68, 0, 67, 0, 66, 0,
      65, 0, 64, 0, 63, 0, 62, 61, 18, 129, 17, 0, 76, 0, 60, 61, 24, 62, 23, 129,
      22, 0, 75, 0, 61, 0, 59, 240, 26, 240, 27, 229, 28, 242, 29, 164, 30, 0, 50, 105,
      43, 95, 36, 239, 34, 228, 35, 0, 58, 243, 37, 244, 38, 242, 39, 236, 40, 229, 41, 238,
      42, 0, 49, 228, 44, 164, 45, 0, 46, 117, 49, 242, 48, 0, 56, 244, 50, 0, 38, 225,
      52, 233, 53, 244, 54, 0, 35, 112, 59, 225, 57, 236, 58, 0, 53, 111, 64, 229, 61, 229,
      62, 235, 63, 0, 27, 235, 65, 229, 66, 0, 26, 97, 72, 232, 69, 242, 70, 164, 71, 0,
      47, 236, 73, 236, 74, 0, 25, 239, 76, 242, 77, 0, 22, 98, 88, 100, 86, 115, 84, 238,
      82, 228, 83, 0, 57, 227, 85, 0, 54, 227, 87, 0, 39, 243, 89, 0, 20, 101, 101, 97,
      98, 233, 93, 231, 94, 232, 95, 244, 96, 164, 97, 0, 45, 238, 99, 228, 100, 0, 30, 116,
      113, 109, 112, 97, 110, 243, 105, 244, 106, 239, 107, 242, 108, 229, 109, 0, 43, 228, 111, 0,
      42, 0, 28, 245, 114, 242, 115, 238, 116, 0, 18, 239, 118, 116, 123, 243, 120, 245, 121, 226,
      122, 0, 17, 239, 124, 0, 16, 101, 129, 239, 127, 244, 128, 0, 21, 248, 130, 244, 131, 0,
      15, 116, 143, 104, 139, 242, 135, 225, 136, 238, 137, 228, 138, 0, 29, 108, 142, 242, 141, 0,
      24, 0, 23, 101, 147, 242, 145, 164, 146, 0, 48, 240, 148, 0, 14, 111, 159, 105, 155, 225,
      152, 244, 153, 225, 154, 0, 41, 114, 158, 237, 157, 0, 40, 0, 36, 247, 160, 238, 161, 244,
      162, 239, 163, 0, 13, 239, 165, 242, 166, 0, 11, 108, 180, 110, 178, 240, 170, 111, 175, 229,
      172, 229, 173, 235, 174, 0, 34, 235, 176, 229, 177, 0, 33, 228, 179, 0, 19, 243, 181, 229,
      182, 0, 10, 104, 189, 111, 188, 225, 186, 226, 187, 0, 55, 0, 12, 229, 190, 238, 191, 0,
      9, 102, 205, 238, 194, 112, 202, 115, 198, 129, 197, 0, 37, 244, 199, 242, 200, 164, 201, 0,
      32, 245, 203, 244, 204, 0, 31, 0, 8, 242, 207, 233, 208, 238, 209, 244, 210, 0, 7, 101,
      218, 239, 213, 247, 214, 229, 215, 242, 216, 164, 217, 0, 51, 116, 225, 102, 222, 238, 221, 0,
      52, 244, 223, 164, 224, 0, 44, 0, 6>>

-----------------------------------------------------------------------------
NoWord == [token |-> -1, length |-> 0]

FirstChar == aucAVRBasic[1]
LastChar == aucAVRBasic[2]
Tree == 3 + LastChar - FirstChar            \* pairs begin behind a place for each first character

CharAt(text, i) == IF i <= Len(text) THEN text[i] ELSE 0

(* Mutant of Walk: a character that is not the last choice ends the search. *)
RECURSIVE WalkFirstChoice(_, _, _)
WalkFirstChoice(text, place, i) ==
    LET char == aucAVRBasic[place] % 128
        next == aucAVRBasic[place + 1]
    IN  CASE char = 0 -> [token |-> next, length |-> i - 1]
          [] char = 1 -> [token |-> aucAVRBasic[place + 3], length |-> i - 1]
          [] char > 1 /\ Upper(CharAt(text, i)) = Upper(char) -> WalkFirstChoice(text, Tree + 2 * next, i + 1)
          [] OTHER -> NoWord

(* The pairs from place on are the choices for the i-th character; the last  *)
(* of them has its highest bit set.  1 stands for any character, 0 for the   *)
(* end of the word.                                                         *)
RECURSIVE Walk(_, _, _)
Walk(text, place, i) ==
    LET char == aucAVRBasic[place] % 128
        last == aucAVRBasic[place] >= 128
        next == aucAVRBasic[place + 1]
    IN  CASE aucAVRBasic[place] = 0 -> [token |-> next, length |-> i - 1]
          [] char = 1 -> [token |-> aucAVRBasic[place + 3], length |-> i - 1]
          [] char > 1 /\ Upper(CharAt(text, i)) = Upper(char) -> Walk(text, Tree + 2 * next, i + 1)
          [] char > 1 /\ Upper(CharAt(text, i)) # Upper(char) -> IF last THEN NoWord ELSE Walk(text, place + 2, i)

iFastParserGetKeyWord(text) ==
    LET char == Lower(text[1])
        root == aucAVRBasic[3 + char - FirstChar]
    IN  IF char < FirstChar \/ char > LastChar \/ root = 255 THEN NoWord
        ELSE Walk(text, Tree + 2 * root, 2)

(* get_next_token, with the list: the first keyword the text begins with,    *)
(* or else the character.                                                   *)
Begins(text, word) == Len(word) <= Len(text) /\ \A i \in DOMAIN word : Lower(text[i]) = word[i]
InList(text, list) == {i \in DOMAIN list : Begins(text, Codes(list[i][1]))}
ListSearch(text) ==
    LET Found(list) == LET k == list[Min(InList(text, list))] IN [token |-> k[2], length |-> Len(k[1])]
    IN  CASE InList(text, keywords) # {} -> Found(keywords)
          [] InList(text, keywords) = {} /\ InList(text, singlechar) # {} -> Found(singlechar)
          [] OTHER -> NoWord

-----------------------------------------------------------------------------
(* Texts: what a keyword, a part of one or a variable is followed by. *)
Capital(word) == [i \in DOMAIN word |-> Upper(word[i])]
Starts == LET All == {Codes(keywords[i][1]) : i \in DOMAIN keywords} \cup {Codes(singlechar[i][1]) : i \in DOMAIN singlechar}
          IN  UNION {{SubSeq(word, 1, n) : n \in 1 .. Len(word)} : word \in All}
              \cup {<<c>> : c \in 97 .. 122}
Followers == {0, 32, 10, 40, 41, 43, 48, 60, 61, 62, 120}

TokenizerInit ==
    \E word \in Starts, c \in Followers, shout \in BOOLEAN :
        LET text == IF c = 0 THEN word ELSE Append(word, c)
        IN  tk = [text |-> IF shout THEN Capital(text) ELSE text, found |-> <<>>]

FindKeyword == tk.found = <<>> /\ tk' = [tk EXCEPT !.found = <<iFastParserGetKeyWord(tk.text)>>]

TokenizerNext == FindKeyword

(* The table finds what the list of the keywords says, no more of the text   *)
(* and no less (tokenizer.c:82-190, 372-409, 513-696).                      *)
KeywordsAreFound == tk.found # <<>> => tk.found[1] = ListSearch(tk.text)
=============================================================================
