---------------------------- MODULE MultipartForm ----------------------------
(***************************************************************************)
(* http_parse_multipart_body (webserver.cpp 850-1215): uploads of firmware,  *)
(* rules, certificates and the web interface come as multipart forms in      *)
(* reads of any size, through a buffer smaller than most values, so that a    *)
(* value is handed on in pieces and a boundary may be cut anywhere.  The     *)
(* name of a field is kept at the front of the buffer, followed by "=".      *)
(*                                                                         *)
(* A token is a character or a word of the headers.                         *)
(***************************************************************************)
EXTENDS Integers, Sequences, SequencesExt, FiniteSetsExt

CONSTANTS
  Forms,      \* what is sent: sequences of [name, file, value]
  ReadSizes,  \* BOUND: how much one read may bring
  WEBSERVER_BUFFER_SIZE

VARIABLES
  form,       \* the form of this behaviour
  rest,       \* what of it is still to be read
  rbuffer,    \* what was read and is not yet in the buffer
  buffer, substep, loop, readlen,
  got,        \* for every field what its handler got
  outcome

fvars == <<form, rest, rbuffer, buffer, substep, loop, readlen, got, outcome>>

CRLF == <<"cr", "lf">>
Boundary == <<"b1", "b2">>
Quote == "quote"

\* Variants of the form's text: nothing but the standard one is sent.
Header(part) ==
  <<"-", "-">> \o Boundary \o CRLF \o <<"content-disposition:", "form-data", ";", "name=", part.name, Quote>>
  \o (IF part.file THEN <<";", "filename">> \o CRLF \o <<"content-type">> ELSE <<>>)
  \o CRLF \o CRLF

Body(parts) ==
  FlattenSeq([n \in DOMAIN parts |-> Header(parts[n]) \o parts[n].value \o CRLF])
  \o <<"-", "-">> \o Boundary \o <<"-", "-">> \o CRLF

Names(parts) == {parts[n].name : n \in DOMAIN parts}
ValueOf(parts, name) == LET n == CHOOSE n \in DOMAIN parts : parts[n].name = name IN parts[n].value

MultipartInit ==
  /\ form \in Forms
  /\ rest = Body(form)
  /\ rbuffer = <<>> /\ buffer = <<>>
  /\ substep = 0 /\ loop = FALSE /\ readlen = 0
  /\ got = [name \in Names(form) |-> <<>>]
  /\ outcome = "reading"
-----------------------------------------------------------------------------
Found(s, words) == {i \in 1 .. Len(s) - Len(words) + 1 : SubSeq(s, i, i + Len(words) - 1) = words}
Has(s, words) == Found(s, words) # {}
At(s, words) == Min(Found(s, words))
\* What is in the buffer from i on starts with the words.
Starts(i, words) == i + Len(words) - 1 <= Len(buffer) /\ SubSeq(buffer, i, i + Len(words) - 1) = words
EndsWith(words) == Len(words) <= Len(buffer) /\ Starts(Len(buffer) - Len(words) + 1, words)

Has1(words) == Has(buffer, words)
At1(words) == At(buffer, words)
From(s, i) == SubSeq(s, i, Len(s))
HasFrom(i, words) == Has(From(buffer, i), words)
AtFrom(i, words) == i - 1 + At(From(buffer, i), words)

Full == Len(buffer) = WEBSERVER_BUFFER_SIZE
Wait == loop' = FALSE /\ UNCHANGED <<buffer, substep, readlen, got, outcome>>
GoOn(b, next, read) ==
  /\ buffer' = b /\ substep' = next /\ readlen' = readlen + read
  /\ UNCHANGED <<loop, got, outcome>>
End(how, read) ==
  /\ outcome' = how /\ readlen' = readlen + read /\ loop' = FALSE
  /\ UNCHANGED <<buffer, substep, got>>

\* All up to and with the words is dropped.
Skip(words, next) ==
  IF Has1(words)
    THEN LET after == At1(words) + Len(words) IN GoOn(From(buffer, after), next, after - 1)
    ELSE Wait

\* The first i - 1 tokens stay, then "=" in place of the quote, then what follows from j.
Marked(i, j) == SubSeq(buffer, 1, i - 1) \o <<"=">> \o From(buffer, j)
-----------------------------------------------------------------------------
\* substep 0: the boundary of this form, in the middle or at the end
LastBoundary == <<"-", "-">> \o CRLF

\* Variant: the marker in front of the boundary is taken off what was read.
MarkerDiscounted(after) ==
  IF Has1(<<"=">>) /\ At1(<<"=">>) < after THEN after - At1(<<"=">>) ELSE after

ReadUpTo(after) == after

BoundarySought ==
  /\ substep = 0
  /\ IF Has1(Boundary)
       THEN LET after == At1(Boundary) + Len(Boundary)
            IN IF Starts(after, CRLF)
                 THEN GoOn(From(buffer, after + 1), 1, ReadUpTo(after))
                 ELSE IF Starts(after, LastBoundary)
                        THEN End(IF readlen + ReadUpTo(after) + 3 = Len(Body(form)) THEN "done" ELSE "error",
                                 ReadUpTo(after) + 3)
                        ELSE Wait
       ELSE IF Full THEN GoOn(buffer, 8, 0) ELSE Wait

Disposition == substep = 1 /\ Skip(<<"content-disposition:">>, 2)
DispositionEnd == substep = 2 /\ Skip(<<";">>, 3)
NameSought == substep = 3 /\ Skip(<<"name=">>, 6)

\* substep 6: a name with a file name behind it, or one that ends the header
NameRead ==
  /\ substep = 6
  /\ IF Has1(<<Quote, ";">>)
       THEN IF Has1(CRLF) THEN GoOn(buffer, 4, 0) ELSE Wait
       ELSE IF ~Has1(<<Quote>> \o CRLF) \/ Len(buffer) - At1(<<Quote>> \o CRLF) + 1 < 5 THEN Wait
       ELSE LET quote == At1(<<Quote>> \o CRLF)
                marked == Marked(quote, quote + 1)
            IN IF HasFrom(quote + 1, CRLF \o CRLF)
                 THEN LET value == AtFrom(quote + 1, CRLF \o CRLF) + 4
                      IN GoOn(Marked(quote, value), 7, value - (quote + 1))
                 ELSE /\ buffer' = marked /\ loop' = FALSE
                      /\ UNCHANGED <<substep, readlen, got, outcome>>

\* substep 4: what follows the name is dropped, with the other headers or up to them
FileName ==
  /\ substep = 4
  /\ IF ~Has1(<<Quote, ";">>) THEN Wait
     ELSE LET quote == At1(<<Quote, ";">>)
          IN IF HasFrom(quote, CRLF \o CRLF)
               THEN LET value == AtFrom(quote, CRLF \o CRLF) + 4
                    IN GoOn(Marked(quote, value), 7, value - (quote + 1))
             ELSE IF ~HasFrom(quote, CRLF) THEN GoOn(buffer, 6, 0)
             ELSE LET line == AtFrom(quote, CRLF)
                  IN IF line - 1 + 4 >= Len(buffer)
                       THEN Wait
                       ELSE GoOn(Marked(quote, line + 2), 5, line + 2 - (quote + 1))

\* substep 5: the other headers
ContentType ==
  /\ substep = 5
  /\ IF ~Has1(<<"=">>) \/ Len(buffer) - At1(<<"=">>) < 4 \/ ~HasFrom(At1(<<"=">>) + 1, CRLF \o CRLF)
       THEN Wait
       ELSE LET mark == At1(<<"=">>)
                value == AtFrom(mark + 1, CRLF \o CRLF) + 4
            IN GoOn(Marked(mark, value), 7, value - (mark + 1))

\* substeps 7, 8: a value, up to what may be a boundary; or a piece of one when the buffer is
\* full, less what may be the beginning of a boundary.
\* Variant: a line end at the end of a piece is taken for data.
NoEnding == 0

Ending ==
  IF EndsWith(<<"cr", "lf", "cr">>) \/ EndsWith(<<"cr", "lf", "-">>) THEN 3
  ELSE IF EndsWith(CRLF) THEN 2
  ELSE IF EndsWith(<<"cr">>) THEN 1
  ELSE 0

\* The callback gets the tokens after the marker and before i.
HandOn(mark, i) ==
  LET name == buffer[mark - 1]
  IN IF mark = 2 /\ name \in DOMAIN got
       THEN got' = [got EXCEPT ![name] = @ \o SubSeq(buffer, mark + 1, i - 1)]
       ELSE got' = got

Value ==
  /\ substep \in {7, 8}
  /\ IF substep = 7 /\ Has1(CRLF \o <<"-", "-">>)
       THEN LET end == At1(CRLF \o <<"-", "-">>)
            IN IF ~Has1(<<"=">>) \/ At1(<<"=">>) > end THEN End("error", 0)
               ELSE LET mark == At1(<<"=">>)
                    IN /\ HandOn(mark, end)
                       /\ buffer' = SubSeq(buffer, 1, mark) \o From(buffer, end)
                       /\ readlen' = readlen + end - (mark + 1)
                       /\ substep' = 0
                       /\ UNCHANGED <<loop, outcome>>
     ELSE IF ~Full THEN Wait
     ELSE IF ~Has1(<<"=">>) THEN End("error", 0)
     ELSE LET mark == At1(<<"=">>)
          IN /\ HandOn(mark, Len(buffer) - Ending + 1)
             /\ buffer' = SubSeq(buffer, 1, mark) \o From(buffer, Len(buffer) - Ending + 1)
             /\ readlen' = readlen + Len(buffer) - mark - Ending
             /\ substep' = 7 /\ loop' = FALSE
             /\ UNCHANGED outcome

Parse ==
  /\ outcome = "reading" /\ loop
  /\ \/ BoundarySought \/ Disposition \/ DispositionEnd \/ NameSought
     \/ FileName \/ ContentType \/ NameRead \/ Value
  /\ UNCHANGED <<form, rest, rbuffer>>

\* The next piece of what was read goes into the buffer, as much as fits.
Fill ==
  /\ outcome = "reading" /\ ~loop /\ rbuffer # <<>>
  /\ LET hasread == Min({WEBSERVER_BUFFER_SIZE - Len(buffer), Len(rbuffer)})
     IN /\ buffer' = buffer \o SubSeq(rbuffer, 1, hasread)
        /\ rbuffer' = From(rbuffer, hasread + 1)
  /\ loop' = TRUE
  /\ UNCHANGED <<form, rest, substep, readlen, got, outcome>>

\* webserver_sync_receive in step ARGS
Receive ==
  /\ outcome = "reading" /\ ~loop /\ rbuffer = <<>> /\ rest # <<>>
  /\ \E n \in ReadSizes :
       /\ rbuffer' = SubSeq(rest, 1, Min({n, Len(rest)}))
       /\ rest' = From(rest, Min({n, Len(rest)}) + 1)
  /\ UNCHANGED <<form, buffer, substep, loop, readlen, got, outcome>>

MultipartNext == Parse \/ Fill \/ Receive
MultipartSpec == MultipartInit /\ [][MultipartNext]_fvars /\ WF_fvars(MultipartNext)
-----------------------------------------------------------------------------
\* A form is read to its end, and every handler has got the whole value of its field and
\* nothing else, however the reads cut it (webserver.cpp:850).
FormsArrive ==
  <>(outcome = "done" /\ \A name \in Names(form) : got[name] = ValueOf(form, name))
=============================================================================
