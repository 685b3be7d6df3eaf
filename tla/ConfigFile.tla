------------------------------- MODULE ConfigFile -------------------------------
(***************************************************************************)
(* The parser of configuration files, operator>> of ConfigFileParser       *)
(* (Engine/SConfigFileParser.cpp), one step per turn of its loops, for     *)
(* every file of a few lines.  A line is what the parser finds in it: the  *)
(* delimiter and a key, the sentry, some text, nothing, or nothing but a   *)
(* comment.  A value is the sequence of the numbers of the lines it was    *)
(* put together from.                                                      *)
(***************************************************************************)
EXTENDS Naturals, Sequences, FiniteSetsExt

CONSTANTS Key,          \* keys
          MaxLines      \* bound on the lines of a file

ASSUME ConfigFileAssumption == Key # {} /\ MaxLines \in Nat

Line == [kind : {"key"}, key : Key] \cup [kind : {"text", "comment", "blank", "sentry"}]
File == UNION {[1 .. n -> Line] : n \in 0 .. MaxLines}

(* A string variable holds a line, by its number, or is empty. *)
Empty == 0

VARIABLES file,         \* the lines
          lastNewline,  \* does the last one end with a newline?
          next,         \* the number of the line the stream is at
          eof, fail,    \* the state of the stream
          parsing,      \* "line", "value" or "done"
          nextline,     \* the line read ahead
          key,          \* the key of the value being read
          value,        \* what line holds of it by now
          myContents    \* key -> value

parserVars == <<file, lastNewline, next, eof, fail, parsing, nextline, key, value, myContents>>

ParserInit ==
    /\ file \in File
    /\ lastNewline \in BOOLEAN
    /\ next = 1
    /\ eof = FALSE
    /\ fail = FALSE
    /\ parsing = "line"
    /\ nextline = Empty
    /\ key \in {CHOOSE k \in Key : TRUE}
    /\ value = <<>>
    /\ myContents = [k \in {} |-> <<>>]

Kind(n) == IF n \in 1 .. Len(file) THEN file[n].kind ELSE "blank"

(* What is left of the line n once its comment is cut off: a line that     *)
(* held nothing else is empty.                                             *)
Cut(n) == IF Kind(n) = "comment" THEN Empty ELSE n

(* Mutant: the end of the stream is not noticed by the line that meets it. *)
GetlineUnchecked(s) == IF eof \/ fail THEN s ELSE next

(* What std::getline leaves in a string that held s: the next line,        *)
(* nothing at the end of the stream, but s if the stream's end has been    *)
(* met before, the string being erased only if the stream is good.         *)
Getline(s) ==
    IF eof \/ fail THEN s
    ELSE IF next <= Len(file) THEN next ELSE Empty

(* Its effect on the stream: a last line without a newline ends in eof, a  *)
(* call that extracts nothing fails.                                       *)
StreamRead ==
    IF ~ (eof \/ fail) /\ next <= Len(file)
    THEN /\ next' = next + 1
         /\ eof' = (next = Len(file) /\ ~ lastNewline)
         /\ UNCHANGED fail
    ELSE /\ eof' = TRUE
         /\ fail' = TRUE
         /\ UNCHANGED next

-------------------------------------------------------------------------------
(* Mutant: the line read ahead stays. *)
KeptAhead == nextline

(* nextline = "" *)
ClearedAhead == Empty

(* A turn of the outer loop, up to the reading of a value: the line is the *)
(* one read ahead, if there is one.                                        *)
TakeLine(l) ==
    /\ parsing = "line"
    /\ ~ fail \/ nextline # Empty
    /\ \/ nextline # Empty /\ l = nextline /\ UNCHANGED <<next, eof, fail>>
       \/ nextline = Empty /\ l = Getline(Empty) /\ StreamRead
    /\ nextline' = ClearedAhead
    /\ UNCHANGED <<file, lastNewline, myContents>>

Ignored(l) ==
    /\ TakeLine(l)
    /\ Kind(l) \in {"text", "comment", "blank"}
    /\ UNCHANGED <<parsing, key, value>>

SentryFound(l) ==
    /\ TakeLine(l)
    /\ Kind(l) = "sentry"
    /\ parsing' = "done"
    /\ UNCHANGED <<key, value>>

KeyFound(l) ==
    /\ TakeLine(l)
    /\ Kind(l) = "key"
    /\ key' = file[l].key
    /\ value' = <<l>>
    /\ parsing' = "value"

EndOfFile ==
    /\ parsing = "line"
    /\ fail
    /\ nextline = Empty
    /\ parsing' = "done"
    /\ UNCHANGED <<file, lastNewline, next, eof, fail, nextline, key, value, myContents>>

-------------------------------------------------------------------------------
(* Mutant: a comment ends the value. *)
StopsAtComments == {"key", "sentry", "blank", "comment"}

(* The lines that end a value. *)
Stops == {"key", "sentry", "blank"}

Stored == [k \in DOMAIN myContents \cup {key} |->
              IF k = key THEN value ELSE myContents[k]]

(* A turn of the inner loop: the line read ahead continues the value, ...  *)
Continued ==
    /\ parsing = "value"
    /\ ~ fail
    /\ Kind(Getline(nextline)) \notin Stops
    /\ nextline' = Cut(Getline(nextline))
    /\ StreamRead
    /\ value' = IF nextline' = Empty THEN value ELSE Append(value, nextline')
    /\ UNCHANGED <<file, lastNewline, parsing, key, myContents>>

(* ... ends it, ...                                                        *)
Terminated ==
    /\ parsing = "value"
    /\ ~ fail
    /\ Kind(Getline(nextline)) \in Stops
    /\ nextline' = Getline(nextline)
    /\ StreamRead
    /\ myContents' = Stored
    /\ parsing' = "line"
    /\ UNCHANGED <<file, lastNewline, key, value>>

(* ... or there is none.                                                   *)
StreamFailed ==
    /\ parsing = "value"
    /\ fail
    /\ myContents' = Stored
    /\ parsing' = "line"
    /\ UNCHANGED <<file, lastNewline, next, eof, fail, nextline, key, value>>

-------------------------------------------------------------------------------
Parse ==
    \/ \E l \in 0 .. Len(file) : Ignored(l) \/ SentryFound(l) \/ KeyFound(l)
    \/ EndOfFile \/ Continued \/ Terminated \/ StreamFailed

ParserNext == Parse

ParserSpec == ParserInit /\ [][ParserNext]_parserVars /\ WF_parserVars(Parse)

-------------------------------------------------------------------------------
ParserTypeOK ==
    /\ file \in Seq(Line)
    /\ lastNewline \in BOOLEAN
    /\ next \in 1 .. Len(file) + 1
    /\ eof \in BOOLEAN /\ fail \in BOOLEAN /\ (fail => eof)
    /\ parsing \in {"line", "value", "done"}
    /\ nextline \in 0 .. Len(file)
    /\ key \in Key
    /\ value \in Seq(1 .. Len(file))
    /\ DOMAIN myContents \subseteq Key
    /\ myContents \in [DOMAIN myContents -> Seq(1 .. Len(file))]

(* What a file says, by the comment in the code: a value "continues on the *)
(* next line", up to a "blank line, next line with a key, end of stream,   *)
(* or end of file sentry" (Engine/SConfigFileParser.cpp:93-95); a repeated *)
(* key is overwritten.                                                     *)
IsKind(kinds) == {n \in 1 .. Len(file) : file[n].kind \in kinds}
FirstOr(S, default) == IF S = {} THEN default ELSE Min(S)
LastLine == FirstOr(IsKind({"sentry"}), Len(file) + 1) - 1
KeyLines(k) == {n \in IsKind({"key"}) : n <= LastLine /\ file[n].key = k}
LinesOfValue(n) ==
    LET end == FirstOr({m \in IsKind({"key", "sentry", "blank"}) : m > n}, Len(file) + 1)
    IN  {m \in n .. end - 1 : m = n \/ file[m].kind = "text"}
Keys == {file[n].key : n \in {m \in IsKind({"key"}) : m <= LastLine}}
Meant(k) == LinesOfValue(Max(KeyLines(k)))

(* A value lists lines in the order of the file, each once, or the last    *)
(* of them, which is the last of the file, twice.                          *)
Ascends(s, n) == \A i, j \in 1 .. n : i < j => s[i] < s[j]
Lists(s, S) == Range(s) = S /\ Ascends(s, Len(s))
ListsLastTwice(s, S) ==
    /\ Range(s) = S /\ Ascends(s, Len(s) - 1)
    /\ Len(s) > 1 /\ s[Len(s)] = Len(file) /\ s[Len(s) - 1] = Len(file)

(* A file that ends with a newline is read as it is meant.  Of another one *)
(* the keys are, and of the values all but one that a last line continues: *)
(* this line is taken twice, because getline leaves the string as it was.  *)
ReadAsMeant ==
    parsing = "done" =>
        /\ DOMAIN myContents = Keys
        /\ \A k \in Keys :
              IF lastNewline \/ Len(file) \notin Meant(k) \ KeyLines(k)
              THEN Lists(myContents[k], Meant(k))
              ELSE ListsLastTwice(myContents[k], Meant(k))

(* The parser comes to the end of every file. *)
ParserEnds == <>(parsing = "done")
=================================================================================
