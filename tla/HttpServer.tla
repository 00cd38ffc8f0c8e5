----------------------------- MODULE HttpServer -----------------------------
(***************************************************************************)
(* One connection of the HTTP server: the reads that the network cuts the  *)
(* client's bytes into, HttpContext::parseRequest() on the input buffer    *)
(* (src/Http/HttpContext.cc), and the answer (src/Http/HttpServer.cc,      *)
(* src/src/Router.cc). All of it runs on the loop thread of the connection.*)
(*                                                                         *)
(* A byte sequence is a sequence of tokens. A request is                   *)
(*     letters target eol  (field eol)*  eol  data*                        *)
(* where `letters` is the method, `target` everything from the space after *)
(* it to the version, and a data token one byte of the body. A field is    *)
(* the pair of its name and value. Bodies hold no line that would do as a  *)
(* request line. Which file the cache holds makes no difference to the     *)
(* answer, and the texts of answers are left out.                          *)
(***************************************************************************)
EXTENDS Integers, Sequences, FiniteSets, SequencesExt

CONSTANTS
    Kinds,              \* the requests that a client may send
    MaxRequests,        \* bound: requests on the connection
    PageRoutes,         \* getRoutes_ and postRoutes_: pairs <<method, path>>
    FileRoutes          \* the pairs of getRoutes_ that file() has registered

NoLength == -1          \* a request without the field Content-Length
BadLength == -2         \* one where that is no number

ASSUME HttpAssumption ==
    /\ \A r \in Kinds :
        /\ r.method \in {"GET", "POST", "PUT"} /\ r.http10 \in BOOLEAN
        /\ r.connection \in {"", "close", "Keep-Alive"}
        /\ r.length \in Nat \cup {NoLength, BadLength}
    /\ MaxRequests \in Nat

VARIABLES
    sent,               \* history: the requests of the client
    wire,               \* the tokens that have not been read yet
    buffer,             \* the readable part of inputBuffer_
    phase,              \* where the loop is: "out", or in "parseRequest"
    state,              \* state_
    contentLength,      \* the local content_Length of parseRequest()
    request,            \* request_
    handed,             \* history: the requests given to onRequest()
    answers,            \* history: what has been sent
    connected,          \* the connection is kConnected, not kDisconnecting
    failed              \* the assert that has ended the program

hvars == <<sent, wire, buffer, phase, state, contentLength, request, handed, answers,
           connected, failed>>

Tok(kind, of) == <<kind, of>>
Kind(token) == token[1]

Field(name, value, absent) ==
    IF value = absent THEN <<>> ELSE <<Tok("field", <<name, value>>), Tok("eol", 0)>>

Data(r, i) == [n \in 1..(IF r.length \in Nat THEN r.length ELSE 0) |-> Tok("data", i)]

Tokens(r, i) ==
    <<Tok("letters", r), Tok("target", r), Tok("eol", 0)>>
    \o Field("connection", r.connection, "") \o Field("length", r.length, NoLength)
    \o <<Tok("eol", 0)>> \o Data(r, i)

NoHeaders == [connection |-> "", length |-> NoLength]
NewRequest == [method |-> "invalid", path |-> "", http10 |-> FALSE, headers |-> NoHeaders,
               body |-> <<>>]

HttpInit ==
    /\ sent \in UNION {[1..n -> Kinds] : n \in 0..MaxRequests}
    /\ wire = FlattenSeq([i \in DOMAIN sent |-> Tokens(sent[i], i)])
    /\ buffer = <<>> /\ phase = "out"
    /\ state = "kExpectRequestLine" /\ contentLength = 0 /\ request = NewRequest
    /\ handed = <<>> /\ answers = <<>> /\ connected = TRUE /\ failed = "none"

-----------------------------------------------------------------------------
(* A read, and the message callback that it makes. *)

Read(n) ==
    /\ failed = "none" /\ phase = "out"
    /\ buffer' = buffer \o SubSeq(wire, 1, n)
    /\ wire' = SubSeq(wire, n + 1, Len(wire))
    /\ phase' = "parseRequest" /\ contentLength' = 0
    /\ UNCHANGED <<sent, state, request, handed, answers, connected, failed>>

Parsing(s) == failed = "none" /\ phase = "parseRequest" /\ state = s

Fail(which) ==
    /\ failed' = which
    /\ UNCHANGED <<sent, wire, buffer, phase, state, contentLength, request, handed, answers,
                   connected>>

\* retrieve() of n tokens.
Rest(n) == SubSeq(buffer, n + 1, Len(buffer))

\* findCRLF() never returns null: without a line end it returns the end of the buffer.
LineComplete == \E i \in DOMAIN buffer : Kind(buffer[i]) = "eol"

\* What is told apart of an answer: the request it is for (none, if that was not
\* understood), its status and whether it says "Connection: close".
Reply(to, status, close) == [to |-> to, status |-> status, close |-> close]

\* send() of a connection that is shutting down does nothing.  (Mutant: it sends.)
SentAnyway(answer) == Append(answers, answer)
Sent(answer) == IF connected THEN Append(answers, answer) ELSE answers

-----------------------------------------------------------------------------
(* The request line. *)

SeesMethod ==
    Len(buffer) > 1 /\ Kind(buffer[1]) = "letters" /\ Kind(buffer[2]) = "target"
SeesLine == SeesMethod /\ LineComplete

\* The assert of setMethod(): a method is set once in the life of a request.
ParseMethodAgain ==
    /\ Parsing("kExpectRequestLine") /\ SeesMethod /\ request.method # "invalid"
    /\ Fail("setMethod")

ParseRequestLine ==
    /\ Parsing("kExpectRequestLine") /\ SeesLine /\ request.method = "invalid"
    /\ request' = [request EXCEPT !.method = buffer[1][2].method, !.path = buffer[1][2].path,
                                  !.http10 = buffer[1][2].http10]
    /\ buffer' = Rest(3)
    /\ state' = "kExpectRequestHeader"
    /\ UNCHANGED <<sent, wire, phase, contentLength, handed, answers, connected, failed>>

\* When the buffer ends in the method, or at the end of it, parseRequestLine() looks at two
\* bytes past its end, which may be the rest of a method and a space of an earlier request.
\* (As no method is a part of another one, it is the method that the client is sending.)
SeesStaleMethod ==
    Len(buffer) = 1 /\ Kind(buffer[1]) = "letters" /\ handed # <<>>

\* No line, or only a part of one: parseRequestLine() takes the method if it sees it and
\* fails; the answer is 400, and the bytes stay.
ParseLineFails ==
    /\ Parsing("kExpectRequestLine") /\ ~SeesLine /\ request.method = "invalid"
    /\ \/ /\ SeesMethod \/ SeesStaleMethod
          /\ request' = [request EXCEPT !.method = buffer[1][2].method]
       \/ ~SeesMethod /\ UNCHANGED request
    /\ answers' = Sent(Reply(0, "400", FALSE))
    /\ phase' = "out"
    /\ UNCHANGED <<sent, wire, buffer, state, contentLength, handed, connected, failed>>

\* The two bytes past the end of the buffer may be the end of a line of an earlier request:
\* the line is taken, and more is retrieved than there is.
ParseLineStaleEnd ==
    /\ Parsing("kExpectRequestLine") /\ SeesMethod /\ ~LineComplete
    /\ request.method = "invalid" /\ handed # <<>>
    /\ Fail("retrieve")

-----------------------------------------------------------------------------
(* The headers: reached only in the call that has parsed the line. *)

\* retrieve() is called twice; the second call is for 0 bytes unless the first has emptied
\* the buffer and so moved its start.
ParseHeader ==
    /\ Parsing("kExpectRequestHeader") /\ LineComplete /\ Kind(buffer[1]) = "field"
    /\ Len(buffer) > 2
    /\ request' = [request EXCEPT !.headers[buffer[1][2][1]] = buffer[1][2][2]]
    /\ buffer' = Rest(2)
    /\ UNCHANGED <<sent, wire, phase, state, contentLength, handed, answers, connected, failed>>

\* No line end, or nothing behind the one there is: more is retrieved than there is.
ParseHeadCut ==
    /\ Parsing("kExpectRequestHeader")
    /\ ~(LineComplete /\ (Kind(buffer[1]) = "eol" \/ Len(buffer) > 2))
    /\ Fail("retrieve")

\* stoi() throws, and nobody catches it.
ParseLengthThrows ==
    /\ Parsing("kExpectRequestHeader") /\ LineComplete /\ Kind(buffer[1]) = "eol"
    /\ request.headers.length = BadLength
    /\ Fail("stoi")

ParseHeadersEnd ==
    /\ Parsing("kExpectRequestHeader") /\ LineComplete /\ Kind(buffer[1]) = "eol"
    /\ request.headers.length # BadLength
    /\ buffer' = Rest(1)
    /\ IF request.headers.length # NoLength
       THEN state' = "kExpectRequestBody" /\ contentLength' = request.headers.length
       ELSE state' = "kGotAll" /\ UNCHANGED contentLength
    /\ UNCHANGED <<sent, wire, phase, request, handed, answers, connected, failed>>

-----------------------------------------------------------------------------
(* The body. In a later call content_Length is 0 again. *)

ParseBody ==
    /\ Parsing("kExpectRequestBody") /\ Len(buffer) >= contentLength
    /\ request' = [request EXCEPT !.body = SubSeq(buffer, 1, contentLength)]
    /\ buffer' = Rest(contentLength)
    /\ state' = "kGotAll"
    /\ UNCHANGED <<sent, wire, phase, contentLength, handed, answers, connected, failed>>

ParseBodyWaits ==
    /\ Parsing("kExpectRequestBody") /\ Len(buffer) < contentLength
    /\ phase' = "out"
    /\ UNCHANGED <<sent, wire, buffer, state, contentLength, request, handed, answers,
                   connected, failed>>

-----------------------------------------------------------------------------
(* onRequest(), and the reset of the context. *)

\* Router::match(), which knows routes for GET and POST only.
Route == <<request.method, request.path>>
Status ==
    IF Route \in FileRoutes THEN "file" ELSE IF Route \in PageRoutes THEN "page" ELSE "404"

Closes ==
    \/ request.headers.connection = "close"
    \/ request.http10 /\ request.headers.connection # "Keep-Alive"
    \/ Status = "404"

\* HttpRequest::swap() leaves body_.  (Mutant: it leaves headers_ as well.)
CleanedOfLine(r) == [NewRequest EXCEPT !.headers = r.headers, !.body = r.body]
Cleaned(r) == [NewRequest EXCEPT !.body = r.body]

OnRequest ==
    /\ Parsing("kGotAll")
    /\ handed' = Append(handed, request)
    /\ answers' = Sent(Reply(Len(handed) + 1, Status, Closes))
    /\ connected' = (connected /\ ~Closes)
    /\ state' = "kExpectRequestLine" /\ request' = Cleaned(request)
    /\ phase' = "out"
    /\ UNCHANGED <<sent, wire, buffer, contentLength, failed>>

HttpNext ==
    \/ \E n \in 1..Len(wire) : Read(n)
    \/ ParseMethodAgain \/ ParseRequestLine \/ ParseLineFails \/ ParseLineStaleEnd
    \/ ParseHeader \/ ParseHeadCut \/ ParseLengthThrows \/ ParseHeadersEnd
    \/ ParseBody \/ ParseBodyWaits
    \/ OnRequest

HttpSpec == HttpInit /\ [][HttpNext]_hvars

-----------------------------------------------------------------------------
(* What the server must guarantee. *)

HasBody(i) == sent[i].length > 0

\* However the bytes are cut, requests reach onRequest() in the order in which they were sent,
\* none is skipped, made up or mixed with another one: line and headers are those of the
\* request, and where there is a body, it is the request's own or lost as a whole.
HandedAsSent ==
    /\ Len(handed) <= Len(sent)
    /\ \A i \in DOMAIN handed :
        /\ handed[i].method = sent[i].method /\ handed[i].path = sent[i].path
        /\ handed[i].http10 = sent[i].http10
        /\ handed[i].headers = [connection |-> sent[i].connection, length |-> sent[i].length]
        /\ HasBody(i) => handed[i].body \in {<<>>, Data(sent[i], i)}

\* Every request given to onRequest() is answered, in order, as long as the connection is open;
\* the answer that announces the end of the connection is the last thing sent on it,
\* although later requests that were already under way are still handled.
AnsweredInOrder ==
    /\ \A i, j \in DOMAIN answers :
          i < j => answers[j].to = 0 \/ answers[i].to < answers[j].to
    /\ \E n \in 0..Len(handed) :
          /\ {answers[i].to : i \in DOMAIN answers} \ {0} = 1..n
          /\ connected => n = Len(handed)
    /\ \A i \in DOMAIN answers : answers[i].close => i = Len(answers)
    /\ connected <=> \A i \in DOMAIN answers : ~answers[i].close

\* Each request is handed over with its own body, all of it, and with none where it has none.
BodyAsSent == \A i \in DOMAIN handed : handed[i].body = Data(sent[i], i)

=============================================================================
