----------------------------- MODULE Statements -----------------------------
(***************************************************************************)
(* statements of internal/store/store.go: a migration script cut into the  *)
(* statements to execute.  A script is a sequence of characters.           *)
(***************************************************************************)
EXTENDS Integers, Sequences

CONSTANT
  Scripts         \* scripts to cut, as their authors mean them

Blank == {" ", "\n"}

(* strings.TrimSpace.                                                      *)
TrimSpace(text) ==
  LET inked == {i \in 1 .. Len(text) : text[i] \notin Blank}
  IN  IF inked = {} THEN << >>
      ELSE SubSeq(text, CHOOSE i \in inked : \A j \in inked : i <= j,
                        CHOOSE i \in inked : \A j \in inked : i >= j)

(* out = append(out, stmt), unless there is nothing but blanks in buf.     *)
AppendTo(out, buf) == IF TrimSpace(buf) = << >> THEN out ELSE Append(out, TrimSpace(buf))

Write(acc, c, mode) == [acc EXCEPT !.buf = Append(@, c), !.mode = mode]

(* What the loop does with the character at i.  It is in a string, at the  *)
(* second of two quotes in a string, in a comment or in plain text.        *)
Scan_CommentsSplit(raw, acc, i) ==
  LET c == raw[i]
      doubled == i < Len(raw) /\ raw[i + 1] = c
  IN  CASE acc.mode = "quote"  -> Write(acc, c, "string")
        [] acc.mode = "string" ->
             Write(acc, c, IF c # "'" THEN "string" ELSE IF doubled THEN "quote" ELSE "text")
        [] c = ";" -> [mode |-> "text", buf |-> << >>, out |-> AppendTo(acc.out, acc.buf)]
        [] acc.mode = "comment" -> [acc EXCEPT !.mode = IF c = "\n" THEN "text" ELSE "comment"]
        [] c = "'" -> Write(acc, c, "string")
        [] c = "-" /\ doubled -> [acc EXCEPT !.mode = "comment"]
        [] OTHER -> Write(acc, c, "text")
Scan(raw, acc, i) ==
  LET c == raw[i]
      doubled == i < Len(raw) /\ raw[i + 1] = c
  IN  CASE acc.mode = "quote"  -> Write(acc, c, "string")
        [] acc.mode = "string" ->
             Write(acc, c, IF c # "'" THEN "string" ELSE IF doubled THEN "quote" ELSE "text")
        [] acc.mode = "comment" -> [acc EXCEPT !.mode = IF c = "\n" THEN "text" ELSE "comment"]
        [] acc.mode = "text" /\ c = "'" -> Write(acc, c, "string")
        [] acc.mode = "text" /\ c = "-" /\ doubled -> [acc EXCEPT !.mode = "comment"]
        [] acc.mode = "text" /\ c = ";" ->
             [mode |-> "text", buf |-> << >>, out |-> AppendTo(acc.out, acc.buf)]
        [] OTHER -> Write(acc, c, "text")

(* What the loop holds when it has dealt with the first i characters.      *)
Start == [mode |-> "text", buf |-> << >>, out |-> << >>]
Scanned(raw) ==
  LET acc[i \in 0 .. Len(raw)] == IF i = 0 THEN Start ELSE Scan(raw, acc[i - 1], i)
  IN  acc

statements(raw) ==
  LET end == Scanned(raw)[Len(raw)]
  IN  AppendTo(end.out, end.buf)

-----------------------------------------------------------------------------
(* Scripts as their author means them: a sequence of lexemes, each a kind  *)
(* and its characters.  "end" is a semicolon that ends a statement.        *)
Texts(script) ==
  LET text[k \in 0 .. Len(script)] == IF k = 0 THEN << >> ELSE text[k - 1] \o script[k].text
  IN  text
Text(script) == Texts(script)[Len(script)]

(* The statements of a script: what stands between the ends, without the   *)
(* comments and the line end that closes each.  SQL reads a comment as a   *)
(* blank; this way a word right before one runs into the word after it,    *)
(* which the migrations there are do not do.                               *)
Add(acc, x) ==
  CASE x.kind = "comment" -> acc
    [] x.kind = "end" -> [out |-> AppendTo(acc.out, acc.buf), buf |-> << >>]
    [] OTHER -> [acc EXCEPT !.buf = @ \o x.text]
Added(script) ==
  LET acc[k \in 0 .. Len(script)] ==
        IF k = 0 THEN [out |-> << >>, buf |-> << >>] ELSE Add(acc[k - 1], script[k])
  IN  acc
Intended(script) ==
  LET last == Added(script)[Len(script)]
  IN  AppendTo(last.out, last.buf)

(* The lexemes of SQL the splitter knows.  A quote in a literal is written *)
(* twice: firsts are the positions of the first of each two.  A comment    *)
(* goes to the end of its line.  Any other lexeme is a character.          *)
IsLiteral(text) ==
  /\ Len(text) >= 2 /\ text[1] = "'" /\ text[Len(text)] = "'"
  /\ \E firsts \in SUBSET (2 .. Len(text) - 2) :
       /\ \A i \in firsts : i - 1 \notin firsts
       /\ \A i \in 2 .. Len(text) - 1 : text[i] = "'" <=> i \in firsts \/ i - 1 \in firsts
IsComment(text) ==
  /\ Len(text) >= 3 /\ text[1] = "-" /\ text[2] = "-" /\ text[Len(text)] = "\n"
  /\ \A i \in 1 .. Len(text) - 1 : text[i] # "\n"
IsLexeme(x) ==
  CASE x.kind = "literal" -> IsLiteral(x.text)
    [] x.kind = "comment" -> IsComment(x.text)
    [] x.kind = "end"     -> x.text = <<";">>
    [] OTHER -> Len(x.text) = 1 /\ x.text[1] \notin {"'", ";"}

(* A script the author of which means what it says: no minus stands right  *)
(* before another, which would begin a comment.                            *)
IsScript(script) ==
  /\ script \in Seq([kind : STRING, text : Seq(STRING)])
  /\ \A k \in 1 .. Len(script) : IsLexeme(script[k])
  /\ \A k \in 1 .. Len(script) - 1 : script[k].text = <<"-">> => script[k + 1].text[1] # "-"

ASSUME ScriptsAssumption == \A script \in Scripts : IsScript(script)

(* Those that are not cut where their authors mean them to be.             *)
Missplit == {script \in Scripts : statements(Text(script)) # Intended(script)}
=============================================================================
