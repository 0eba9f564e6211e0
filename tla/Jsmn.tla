--------------------------------- MODULE Jsmn ---------------------------------
(***************************************************************************)
(* The tokenizer of JSDT device trees (serialize/jsmn.c).                  *)
(*                                                                         *)
(* A document is a sequence of lexemes: brackets, "@" (the children token),*)
(* "S" a closed string, "P" a primitive, "," whatever the tokenizer skips  *)
(* (blanks, ':' and ',', a comment), "bad" a character or an escape it     *)
(* refuses, "open" a string and "/" a comment that is not closed.  Token   *)
(* numbers start at 1, so 0 stands for the -1 of the code.                 *)
(***************************************************************************)
EXTENDS Integers, Sequences, SequencesExt, FiniteSetsExt

CONSTANTS
    Docs,           \* the documents
    FirstTokens,    \* token_cnt of the first attempt
    MoreTokens      \* what a retry adds to it

ASSUME TokensAssumption ==
    /\ FirstTokens \in Nat
    /\ MoreTokens \in Nat \ {0}

Lexemes == {"{", "}", "[", "]", "@", "S", "P", ",", "bad", "open", "/"}

ASSUME DocsAssumption == Docs \subseteq Seq(Lexemes)

VARIABLES
    doc,        \* the text being parsed
    parser,     \* pos and toksuper of jsmn_parser
    tokens,     \* the tokens allocated; toknext is their number
    token_cnt,  \* num_tokens
    err         \* what jsmn_parse returned, "none" while it runs,
                \* "undefined" once it has left the text

jsmn_vars == <<doc, parser, tokens, token_cnt, err>>

jsmn_init == [pos |-> 0, toksuper |-> 0]

JsmnInit ==
    /\ doc \in Docs
    /\ parser = jsmn_init
    /\ tokens = <<>>
    /\ token_cnt = FirstTokens
    /\ err = "none"

(* js[parser->pos], "end" for the NUL. *)
char == IF parser.pos < Len(doc) THEN doc[parser.pos + 1] ELSE "end"

Running(lexemes) == err = "none" /\ char \in lexemes

IsOpen(t) == t.type \in {"object", "array"} /\ ~t.closed

InnermostOpen(ts) == Max({0} \cup {i \in DOMAIN ts : IsOpen(ts[i])})

-----------------------------------------------------------------------------
jsmn_alloc_token == Len(tokens) < token_cnt

(* The tokens with a new one, counted in the token it is in. *)
CountedIn(super, new) ==
    Append(IF super = 0 THEN tokens ELSE [tokens EXCEPT ![super].size = @ + 1], new)

Fails(e) ==
    /\ err' = e
    /\ UNCHANGED <<doc, parser, tokens, token_cnt>>

Skip ==
    /\ Running({","})
    /\ parser' = [parser EXCEPT !.pos = @ + 1]
    /\ UNCHANGED <<doc, tokens, token_cnt, err>>

(* The tokens without others inside. *)
LeafType == [c \in {"@", "S", "P"} |->
    CASE c = "@" -> "children" [] c = "S" -> "string" [] c = "P" -> "primitive"]

Leaf ==
    /\ Running({"@", "S", "P"})
    /\ IF jsmn_alloc_token
       THEN /\ tokens' = CountedIn(parser.toksuper,
                   [type |-> LeafType[char], at |-> parser.pos + 1,
                    size |-> 0, closed |-> TRUE])
            /\ parser' = [parser EXCEPT !.pos = @ + 1]
            /\ UNCHANGED <<doc, token_cnt, err>>
       ELSE Fails("nomem")

(* The new token becomes the one that later tokens are counted in. *)
Open ==
    /\ Running({"{", "["})
    /\ IF jsmn_alloc_token
       THEN /\ tokens' = CountedIn(parser.toksuper,
                   [type |-> IF char = "{" THEN "object" ELSE "array",
                    at |-> parser.pos + 1, size |-> 0, closed |-> FALSE])
            /\ parser' = [pos |-> parser.pos + 1, toksuper |-> Len(tokens) + 1]
            /\ UNCHANGED <<doc, token_cnt, err>>
       ELSE Fails("nomem")

(* Mutant: toksuper stays on the token that was closed. *)
Outer_Kept(ts, i) == i

(* toksuper once token i is closed: the innermost token still open. *)
Outer(ts, i) == InnermostOpen(SubSeq(ts, 1, i - 1))

Close ==
    /\ Running({"}", "]"})
    /\ LET i == InnermostOpen(tokens)
           type == IF char = "}" THEN "object" ELSE "array"
       IN  IF i = 0 \/ (i # 0 /\ tokens[i].type # type)
           THEN Fails("inval")
           ELSE /\ tokens' = [tokens EXCEPT ![i].closed = TRUE]
                /\ parser' = [pos |-> parser.pos + 1, toksuper |-> Outer(tokens, i)]
                /\ UNCHANGED <<doc, token_cnt, err>>

Invalid == Running({"bad"}) /\ Fails("inval")

Partial == Running({"open"}) /\ Fails("part")

(* jsmn_comment_length looks for the end of the comment in whatever the    *)
(* memory holds behind the text.                                           *)
CommentOverrun == Running({"/"}) /\ Fails("undefined")

End ==
    /\ Running({"end"})
    /\ Fails(IF InnermostOpen(tokens) = 0 THEN "success" ELSE "part")

jsmn_parse == Skip \/ Leaf \/ Open \/ Close \/ Invalid \/ Partial \/ CommentOverrun \/ End

-----------------------------------------------------------------------------
(* Where the bracket at position p of the document is closed, past the end *)
(* if nowhere: brackets are counted, whatever their kind.                  *)
Opens(s) == {i \in DOMAIN s : s[i] \in {"{", "["}}
Closes(s) == {i \in DOMAIN s : s[i] \in {"}", "]"}}

Depth(s, a, b) == Cardinality(Opens(s) \cap (a .. b)) - Cardinality(Closes(s) \cap (a .. b))

Match(s, p) == Min({i \in Closes(s) : i > p /\ Depth(s, p, i) = 0} \cup {Len(s) + 1})

(* The position of the innermost bracket around position i, 0 if none. *)
Around(s, i) == Max({p \in Opens(s) : p < i /\ Match(s, p) > i} \cup {0})

(* A token's size is the number of tokens directly inside it in the        *)
(* document so far, and toksuper is the innermost bracket that is open, at *)
(* every point of the scan, retries included: this is what the builder     *)
(* steps by.                                                               *)
SizesCount ==
    LET around == [m \in DOMAIN tokens |-> Around(doc, tokens[m].at)]
    IN  err = "none" =>
        /\ \A k \in DOMAIN tokens :
              tokens[k].size = Cardinality({m \in DOMAIN tokens : around[m] = tokens[k].at})
        /\ (IF parser.toksuper = 0 THEN 0 ELSE tokens[parser.toksuper].at) =
               Max({p \in Opens(doc) : p <= parser.pos /\ Match(doc, p) > parser.pos} \cup {0})
=============================================================================
