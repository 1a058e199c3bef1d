---------------------------- MODULE DashboardChat ----------------------------
(* dashboard/db.py (ConversationsDB) under dashboard/routers/chat.py: chat     *)
(* requests that read a conversation, append to the copy and write it back,    *)
(* in threads of their own.                                                    *)
EXTENDS Naturals, Sequences, FiniteSets

CONSTANTS
  Requests,       \* POST /send and GET /stream requests
  Conversations   \* ids a conversation may get

ASSUME ChatAssumption == "new" \notin Requests /\ "none" \notin Conversations

VARIABLES
  rows,        \* the conversations table: its domain is the ids it holds
  request,     \* where each request is, and the copy it works on
  usedIds,     \* uuid4 ids are not given out twice
  overlapped   \* history: conversations two requests worked on at once

chatVars == <<rows, request, usedIds, overlapped>>

EmptyRow == [title |-> "new", messages |-> <<>>]
Waiting == [at |-> "waiting", conv |-> "none", copy |-> EmptyRow, stale |-> FALSE]
Active == {r \in Requests : request[r].at \notin {"waiting", "done"}}
Said(role, r) == [role |-> role, by |-> r]

ChatInit ==
  /\ rows = [c \in {} |-> EmptyRow]
  /\ request = [r \in Requests |-> Waiting]
  /\ usedIds = {} /\ overlapped = {}

At(r, l) == request' = [request EXCEPT ![r] = [request[r] EXCEPT !.at = l]]

\* A request for a conversation there is, or without an id: one is created.
Open(r) ==
  /\ request[r].at = "waiting"
  /\ \E c \in Conversations :
       /\ \/ c \in DOMAIN rows /\ UNCHANGED <<rows, usedIds>>
          \/ /\ c \notin usedIds
             /\ rows' = [d \in DOMAIN rows \cup {c} |-> IF d = c THEN EmptyRow ELSE rows[d]]
             /\ usedIds' = usedIds \cup {c}
       /\ overlapped' = IF \E q \in Active : request[q].conv = c
                        THEN overlapped \cup {c} ELSE overlapped
       /\ request' = [request EXCEPT ![r] = [Waiting EXCEPT !.at = "user", !.conv = c]]

\* add_message reads the row; a conversation that is gone ends a /send with 404.
ReadRow(r) ==
  /\ request[r].at \in {"user", "assistant"}
  /\ IF request[r].conv \in DOMAIN rows
     THEN request' = [request EXCEPT ![r] =
            [at |-> IF request[r].at = "user" THEN "writeUser" ELSE "writeAssistant",
             conv |-> request[r].conv, copy |-> rows[request[r].conv], stale |-> FALSE]]
     ELSE At(r, "done")
  /\ UNCHANGED <<rows, usedIds, overlapped>>

\* It has a copy of the row, and has not written it back.
Writing(r) == request[r].at \in {"writeUser", "writeAssistant"}

\* The copy with the message, and a title from the first message of a user.
Extended(r, role) ==
  LET copy == request[r].copy
  IN [title |-> IF copy.title = "new" /\ role = "user" THEN r ELSE copy.title,
      messages |-> Append(copy.messages, Said(role, r))]

\* Mutant: INSERT OR REPLACE instead of UPDATE.
UpsertRow(r) ==
  /\ Writing(r)
  /\ LET c == request[r].conv
         role == IF request[r].at = "writeUser" THEN "user" ELSE "assistant"
     IN /\ rows' = [d \in DOMAIN rows \cup {c} |-> IF d = c THEN Extended(r, role) ELSE rows[d]]
        /\ At(r, IF role = "user" THEN "generate" ELSE "done")
  /\ UNCHANGED <<usedIds, overlapped>>

\* UPDATE: nothing happens if the row has been deleted in between.
WriteRow(r) ==
  /\ Writing(r)
  /\ LET c == request[r].conv
         role == IF request[r].at = "writeUser" THEN "user" ELSE "assistant"
     IN /\ rows' = IF c \in DOMAIN rows THEN [rows EXCEPT ![c] = Extended(r, role)] ELSE rows
        /\ request' = [q \in Requests |->
             IF q = r THEN [request[r] EXCEPT !.at = IF role = "user" THEN "generate" ELSE "done"]
             ELSE [request[q] EXCEPT !.stale = request[q].stale \/ (request[q].conv = c /\ Writing(q))]]
  /\ UNCHANGED <<usedIds, overlapped>>

\* _generate_response answers, with an apology if it must.
Generate(r) ==
  /\ request[r].at = "generate"
  /\ At(r, "assistant")
  /\ UNCHANGED <<rows, usedIds, overlapped>>

\* The browser closes a stream before its answer is stored, the server stops, or
\* a write fails: the database is locked, the provider raises.
Disconnect(r) ==
  /\ r \in Active
  /\ At(r, "done")
  /\ UNCHANGED <<rows, usedIds, overlapped>>

Delete(c) ==
  /\ c \in DOMAIN rows
  /\ rows' = [d \in DOMAIN rows \ {c} |-> rows[d]]
  /\ UNCHANGED <<request, usedIds, overlapped>>

ChatStep(r) == ReadRow(r) \/ WriteRow(r) \/ Generate(r)
ChatNext ==
  \/ \E r \in Requests : Open(r) \/ ChatStep(r) \/ Disconnect(r)
  \/ \E c \in Conversations : Delete(c)

ChatSpec == ChatInit /\ [][ChatNext]_chatVars

-----------------------------------------------------------------------------
Message == [role : {"user", "assistant"}, by : Requests]
Row == [title : {"new"} \cup Requests, messages : Seq(Message)]

ChatTypeOK ==
  /\ rows \in [DOMAIN rows -> Row]
  /\ DOMAIN rows \subseteq usedIds /\ usedIds \subseteq Conversations
  /\ request \in [Requests ->
       [at : {"waiting", "user", "writeUser", "generate", "assistant", "writeAssistant", "done"},
        conv : Conversations \cup {"none"}, copy : Row, stale : BOOLEAN]]
  /\ overlapped \subseteq Conversations

\* A row is named after the first user message it holds, and unnamed without one.
Users(row) == {i \in DOMAIN row.messages : row.messages[i].role = "user"}
NamedAfterFirst(row) ==
  IF Users(row) = {} THEN row.title = "new"
  ELSE \E i \in Users(row) : (\A j \in Users(row) : i <= j) /\ row.title = row.messages[i].by

\* Every answer of a row comes straight after its question.
InTurns(row) ==
  \A i \in DOMAIN row.messages :
    row.messages[i].role = "assistant"
      => i > 1 /\ row.messages[i - 1] = Said("user", row.messages[i].by)

\* What the requests that are under way know of the rows: a copy is named as the row it
\* was made of, and that row itself unless somebody wrote in between; where a request is
\* alone its copy is the row and its question the last message while it has no answer.
ChatInv ==
  /\ \A r \in Requests : NamedAfterFirst(request[r].copy)
  /\ \A r \in Requests : Writing(r) /\ ~request[r].stale /\ request[r].conv \in DOMAIN rows
       => request[r].copy = rows[request[r].conv]
  /\ \A r \in Active : request[r].conv \in usedIds
  /\ \A r \in Active : request[r].conv \notin overlapped =>
       /\ \A q \in Active : request[q].conv = request[r].conv => q = r
       /\ Writing(r) => ~request[r].stale
       /\ request[r].at \in {"generate", "assistant", "writeAssistant"} /\ request[r].conv \in DOMAIN rows =>
            LET list == rows[request[r].conv].messages IN list # <<>> /\ list[Len(list)] = Said("user", r)

\* A conversation is named after the first user message it still holds, and
\* is unnamed while it holds none, even when requests overwrite each other.
TitleIsFirst == \A c \in DOMAIN rows : NamedAfterFirst(rows[c])

\* Where no two requests met, every answer comes straight after its question.
AnswersFollow == \A c \in DOMAIN rows \ overlapped : InTurns(rows[c])

\* A step leaves the messages of a conversation as they are and in order, or
\* adds one at the end.  What the code does not keep, and what this leaves out:
\* of two requests that meet in a conversation, one writes back a copy it read
\* before the other wrote, and the message of the other is gone (add_message 75-89).
OnlyAppends ==
  [][\A c \in DOMAIN rows \cap DOMAIN rows' :
       \/ rows'[c] = rows[c]
       \/ \E m \in Message : rows'[c].messages = Append(rows[c].messages, m)
       \/ /\ c \in overlapped
          /\ \E r \in Requests : WriteRow(r) /\ request[r].conv = c /\ request[r].stale]_chatVars

\* The same of every conversation, which the code does not keep: "Store user
\* message" (chat.py 145, 175) loses one where two requests meet.
HistoryComplete ==
  [][\A c \in DOMAIN rows \cap DOMAIN rows' :
       \/ rows'[c] = rows[c]
       \/ \E m \in Message : rows'[c].messages = Append(rows[c].messages, m)]_chatVars

\* A deleted conversation does not come back with a late answer (86, 97).
DeletedStays == [][\A c \in usedIds : c \notin DOMAIN rows => c \notin DOMAIN rows']_chatVars

\* The history of a conversation that one request at a time works on is complete
\* and in order.  Where requests meet, a message may be lost to a stale copy and
\* answers may stand apart from their questions; what is kept there too is the
\* title, and that what is deleted stays deleted.
ChatSafe == []ChatInv /\ []TitleIsFirst /\ []AnswersFollow /\ OnlyAppends /\ DeletedStays
=============================================================================
