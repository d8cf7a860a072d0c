----------------------------- MODULE MCStartup ------------------------------
(***************************************************************************)
(* Startup for TLC: migrations and scripts with semicolons, quotes and     *)
(* dashes wherever the splitter could trip over them.                      *)
(***************************************************************************)
EXTENDS Startup

Lexeme(kind, text) == [kind |-> kind, text |-> text]
A == Lexeme("word", <<"a">>)
B == Lexeme("word", <<"b">>)
Space == Lexeme("space", <<" ">>)
End == Lexeme("end", <<";">>)
Minus == Lexeme("minus", <<"-">>)
Literal(text) == Lexeme("literal", <<"'">> \o text \o <<"'">>)
Comment(text) == Lexeme("comment", <<"-", "-">> \o text \o <<"\n">>)

MCMigrations ==
  <<<<Comment(<<";", "'">>), A, End, B, Space, Literal(<<";">>), End>>,
    <<A, Space, Comment(<<";">>), A, Literal(<<"'", "'", ";">>), Minus, B>>>>

(* The migrations, and every script of up to four of these lexemes in      *)
(* which a minus is not the beginning of a comment.                        *)
Lexemes == {A, Space, End, Minus, Literal(<< >>), Literal(<<";">>), Literal(<<"-", "-", "'", "'">>),
            Comment(<< >>), Comment(<<";", "'">>)}
MCScripts ==
  {MCMigrations[1], MCMigrations[2]} \cup
  {s \in UNION {[1 .. n -> Lexemes] : n \in 0 .. 4} :
     \A i \in 1 .. Len(s) - 1 : s[i] = Minus => s[i + 1].kind \notin {"minus", "comment"}}
=============================================================================
