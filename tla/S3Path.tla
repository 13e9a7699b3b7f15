------------------------------- MODULE S3Path -------------------------------
(***************************************************************************)
(* hestia::S3Path (src/src/base/protocol/s3/S3Path.cc): the container,     *)
(* object id and query string an S3 request names.  With a Host header the *)
(* host is the container and the path, less its first character, the      *)
(* object.  Without one, from_path_only reads the path one character at a  *)
(* time through four line states; each iteration of its loop is a step    *)
(* here.  A string is a sequence of characters.                            *)
(***************************************************************************)
EXTENDS Naturals, Sequences, SequencesExt, FiniteSetsExt

CONSTANTS
    Chars,          \* the characters paths are made of, "/" and "?" included
    Hosts,          \* Host header values, "" for none
    MaxLen          \* bound on the length of a path

VARIABLES
    host,           \* the request's Host header
    input,          \* the request's path
    rest,           \* the characters of the path the loop has still to read
    line_state,     \* the LineState of from_path_only
    container,      \* m_container_name
    object,         \* m_object_id
    queries         \* m_queries

vars == <<host, input, rest, line_state, container, object, queries>>

Paths == UNION {[1 .. n -> Chars] : n \in 0 .. MaxLen}

\* S3Path(request): the Host form sets both names at once; otherwise
\* from_path_only, which reads nothing of an empty path or of "/".
Init ==
    /\ host \in Hosts
    /\ input \in Paths
    /\ line_state = "AWAITING_FIRST_NON_SLASH"
    /\ queries = <<>>
    /\ IF host # ""
       THEN /\ Len(input) >= 1          \* substr(1) of "" throws
            /\ container = <<host>>
            /\ object = Tail(input)
            /\ rest = <<>>
       ELSE /\ container = <<>>
            /\ object = <<>>
            /\ rest = IF input \in {<<>>, <<"/">>} THEN <<>> ELSE input

c == Head(rest)

\* One iteration: the character is consumed and the line state may change.
Read(ls) ==
    /\ rest' = Tail(rest)
    /\ line_state' = ls
    /\ UNCHANGED <<host, input>>

\* Leading slashes are skipped.
skip_leading_slash ==
    /\ rest # <<>> /\ c = "/" /\ line_state = "AWAITING_FIRST_NON_SLASH"
    /\ Read(line_state)
    /\ UNCHANGED <<container, object, queries>>

\* A slash ends the container.
end_container ==
    /\ rest # <<>> /\ c = "/" /\ line_state = "AWAITING_CONTAINER_END"
    /\ Read("AWAITING_OBJECT_END")
    /\ UNCHANGED <<container, object, queries>>

\* A slash in the object or the query changes nothing.
drop_slash ==
    /\ rest # <<>> /\ c = "/"
    /\ line_state \in {"AWAITING_OBJECT_END", "AWAITING_QUERY_END"}
    /\ Read(line_state)
    /\ UNCHANGED <<container, object, queries>>

\* The first other character starts the container.
start_container ==
    /\ rest # <<>> /\ c # "/" /\ line_state = "AWAITING_FIRST_NON_SLASH"
    /\ Read("AWAITING_CONTAINER_END")
    /\ container' = Append(container, c)
    /\ UNCHANGED <<object, queries>>

\* In the container a "?" starts the query, any other character is kept.
container_char ==
    /\ rest # <<>> /\ c # "/" /\ line_state = "AWAITING_CONTAINER_END"
    /\ IF c = "?"
       THEN Read("AWAITING_QUERY_END") /\ UNCHANGED container
       ELSE Read(line_state) /\ container' = Append(container, c)
    /\ UNCHANGED <<object, queries>>

\* In the object a "?" starts the query only while the object is empty.
object_char ==
    /\ rest # <<>> /\ c # "/" /\ line_state = "AWAITING_OBJECT_END"
    /\ IF object = <<>> /\ c = "?"
       THEN Read("AWAITING_QUERY_END") /\ UNCHANGED object
       ELSE Read(line_state) /\ object' = Append(object, c)
    /\ UNCHANGED <<container, queries>>

query_char ==
    /\ rest # <<>> /\ c # "/" /\ line_state = "AWAITING_QUERY_END"
    /\ Read(line_state)
    /\ queries' = Append(queries, c)
    /\ UNCHANGED <<container, object>>

Next ==
    \/ skip_leading_slash \/ end_container \/ drop_slash
    \/ start_container \/ container_char \/ object_char \/ query_char

\* The loop ends with the path; nothing follows.
Spec == Init /\ [][Next]_vars

(***************************************************************************)
(* Properties.                                                            *)
(***************************************************************************)
TypeOK ==
    /\ {container, object, queries, rest} \subseteq Paths \cup {<<h>> : h \in Hosts}
    /\ line_state \in {"AWAITING_FIRST_NON_SLASH", "AWAITING_CONTAINER_END",
                       "AWAITING_OBJECT_END", "AWAITING_QUERY_END"}

\* A path-style path "/c/k": a container c with no "/", then the key k;
\* no query.
SecondSlash(p) == Min({i \in 3 .. Len(p) : p[i] = "/"})

PathStyle(p) ==
    /\ Len(p) >= 3 /\ p[1] = "/" /\ p[2] # "/"
    /\ "?" \notin Range(p)
    /\ \E i \in 3 .. Len(p) : p[i] = "/"

\* The object the Host form (S3Path.cc:11) names for a path: all but its
\* first character.
HostObject(p) == SubSeq(p, 2, Len(p))

\* A request without a Host header for "/c/k" names container c and the
\* same object as a request with Host c for "/k": from_path_only keeps the
\* key as the Host form does, slashes in it included.
PathStyleAgreesWithHost ==
    (host = "" /\ rest = <<>> /\ PathStyle(input)) =>
        LET j == SecondSlash(input)
        IN  /\ container = SubSeq(input, 2, j - 1)
            /\ object = HostObject(SubSeq(input, j, Len(input)))

====
