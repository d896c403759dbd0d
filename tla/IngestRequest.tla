--------------------------- MODULE IngestRequest ---------------------------
(***************************************************************************)
(* ingest_events of app/routes/events.py, one step per statement or loop   *)
(* turn: the size check, the choice of the parser, the parse loop, the     *)
(* event cap, the validation loop, the single INSERT and the COMMIT that   *)
(* get_session runs after the handler has returned.                        *)
(* Definitions named Operation_What are faulty variants of Operation: each *)
(* shows that a property below would notice the fault.                     *)
(***************************************************************************)
EXTENDS IngestBatch

CONSTANTS InputBodies,  \* the bodies a client may send
          ErrorCap      \* errors[:25] in the response

ASSUME InputBodiesAssumption == InputBodies \subseteq Bodies(Seq(Kinds))
ASSUME ErrorCapAssumption == ErrorCap \in Nat

VARIABLES
  body,         \* the request
  pc,           \* the next step of the handler
  cursor,       \* loop position: lines or items read, then objects validated
  objects,      \* raw_objects
  parseErrors,  \* parse_errors
  rows,         \* rows: positions in objects that passed IngestEvent
  errors,       \* errors
  stored,       \* what the committed transaction left in the table
  status,       \* HTTP status of the answer, 0 while there is none
  response      \* IngestResponse of a 200

vars == <<body, pc, cursor, objects, parseErrors, rows, errors, stored, status, response>>

Stages == {"size", "parse", "cap", "validate", "persist", "commit", "done"}

NoResponse == [accepted |-> 0, rejected |-> 0, errors |-> <<>>]

Init ==
  /\ body \in InputBodies
  /\ pc = "size"
  /\ cursor = 0
  /\ objects = <<>> /\ parseErrors = <<>>
  /\ rows = <<>> /\ errors = <<>>
  /\ stored = <<>>
  /\ status = 0
  /\ response = NoResponse

(* An HTTPException or an uncaught exception: get_session rolls back.      *)
Fail(code) ==
  /\ status' = code
  /\ pc' = "done"
  /\ UNCHANGED <<cursor, objects, parseErrors, rows, errors, stored, response>>

RefuseSize ==
  /\ pc = "size" /\ body.oversize
  /\ Fail(413)
  /\ UNCHANGED body

RefuseDocument_As400 ==
  /\ pc = "size" /\ ~body.oversize
  /\ ~TakesLines(body) /\ Undecodable(body)
  /\ Fail(400)
  /\ UNCHANGED body

(* The one-document branch: orjson.loads fails, or the document is a       *)
(* scalar other than null.                                                 *)
RefuseDocument ==
  /\ pc = "size" /\ ~body.oversize
  /\ ~TakesLines(body) /\ Undecodable(body)
  /\ Fail(422)
  /\ UNCHANGED body

BeginParse ==
  /\ pc = "size" /\ ~body.oversize
  /\ TakesLines(body) \/ ~Undecodable(body)
  /\ pc' = "parse"
  /\ UNCHANGED <<body, cursor, objects, parseErrors, rows, errors, stored, status, response>>

ParseText_NumbersNonBlank ==
  /\ pc = "parse" /\ cursor < Len(Texts(body))
  /\ cursor' = cursor + 1
  /\ LET text == Texts(body)[cursor']
         where == IF TakesLines(body) THEN "line" ELSE "item"
     IN /\ objects' = IF IsObject(text) THEN Append(objects, text) ELSE objects
        /\ parseErrors' = IF IsNoise(text)
                            THEN Append(parseErrors, <<where, Len(objects) + Len(parseErrors) + 1>>)
                            ELSE parseErrors
  /\ UNCHANGED <<body, pc, rows, errors, stored, status, response>>

ParseText_StaysOnBlank ==
  /\ pc = "parse" /\ cursor < Len(Texts(body))
  /\ LET text == Texts(body)[cursor + 1]
     IN /\ cursor' = IF text = "blank" THEN cursor ELSE cursor + 1
        /\ objects' = IF IsObject(text) THEN Append(objects, text) ELSE objects
        /\ UNCHANGED parseErrors
  /\ UNCHANGED <<body, pc, rows, errors, stored, status, response>>

(* One turn of the loop of parse_ndjson or of the loop over the items of a *)
(* JSON array; the number of a line or of an item counts blank ones.       *)
ParseText ==
  /\ pc = "parse" /\ cursor < Len(Texts(body))
  /\ cursor' = cursor + 1
  /\ LET text == Texts(body)[cursor']
         where == IF TakesLines(body) THEN "line" ELSE "item"
     IN /\ objects' = IF IsObject(text) THEN Append(objects, text) ELSE objects
        /\ parseErrors' = IF IsNoise(text)
                            THEN Append(parseErrors, <<where, cursor'>>)
                            ELSE parseErrors
  /\ UNCHANGED <<body, pc, rows, errors, stored, status, response>>

EndParse ==
  /\ pc = "parse" /\ cursor = Len(Texts(body))
  /\ pc' = "cap"
  /\ UNCHANGED <<body, cursor, objects, parseErrors, rows, errors, stored, status, response>>

RefuseCount_CountsNoise ==
  /\ pc = "cap" /\ Len(objects) + Len(parseErrors) > MaxEvents
  /\ Fail(413)
  /\ UNCHANGED body

RefuseCount ==
  /\ pc = "cap" /\ Len(objects) > MaxEvents
  /\ Fail(413)
  /\ UNCHANGED body

BeginValidate ==
  /\ pc = "cap" /\ Len(objects) <= MaxEvents
  /\ pc' = "validate"
  /\ cursor' = 0
  /\ errors' = parseErrors
  /\ UNCHANGED <<body, objects, parseErrors, rows, stored, status, response>>

(* One turn of the validation loop.  coerce_props raises TypeError, which  *)
(* pydantic lets through and the loop does not catch.                      *)
ValidateObject ==
  /\ pc = "validate" /\ cursor < Len(objects)
  /\ objects[cursor + 1] # "typeError"
  /\ cursor' = cursor + 1
  /\ IF PassesModel(objects[cursor'])
       THEN rows' = Append(rows, cursor') /\ UNCHANGED errors
       ELSE errors' = Append(errors, <<"event", cursor'>>) /\ UNCHANGED rows
  /\ UNCHANGED <<body, pc, objects, parseErrors, stored, status, response>>

ValidationEscapes_Always ==
  /\ pc = "validate" /\ cursor < Len(objects)
  /\ ~PassesModel(objects[cursor + 1])
  /\ Fail(500)
  /\ UNCHANGED body

ValidationEscapes ==
  /\ pc = "validate" /\ cursor < Len(objects)
  /\ objects[cursor + 1] = "typeError"
  /\ Fail(500)
  /\ UNCHANGED body

EndValidate ==
  /\ pc = "validate" /\ cursor = Len(objects)
  /\ pc' = "persist"
  /\ UNCHANGED <<body, cursor, objects, parseErrors, rows, errors, stored, status, response>>

SmallerOf(m, n) == IF m < n THEN m ELSE n

Persist_ForgetsParseErrors ==
  /\ pc = "persist"
  /\ \A i \in DOMAIN rows : objects[rows[i]] # "unstorable"
  /\ pc' = "commit"
  /\ response' = [accepted |-> Len(rows), rejected |-> Len(objects) - Len(rows),
                  errors   |-> SubSeq(errors, 1, SmallerOf(Len(errors), ErrorCap))]
  /\ UNCHANGED <<body, cursor, objects, parseErrors, rows, errors, stored, status>>

(* The handler builds the response; the status goes out after the COMMIT.  *)
Persist ==
  /\ pc = "persist"
  /\ \A i \in DOMAIN rows : objects[rows[i]] # "unstorable"
  /\ pc' = "commit"
  /\ response' = [accepted |-> Len(rows),
                  rejected |-> Len(objects) + Len(parseErrors) - Len(rows),
                  errors   |-> SubSeq(errors, 1, SmallerOf(Len(errors), ErrorCap))]
  /\ UNCHANGED <<body, cursor, objects, parseErrors, rows, errors, stored, status>>

(* The database refuses a value, or is not there (nothing to fail on when  *)
(* there is no row to insert).                                             *)
PersistFails ==
  /\ pc = "persist" /\ rows # <<>>
  /\ Fail(500)
  /\ UNCHANGED body

Commit_FirstObjects ==
  /\ pc = "commit"
  /\ pc' = "done"
  /\ stored' = [i \in DOMAIN rows |-> i]
  /\ status' = 200
  /\ UNCHANGED <<body, cursor, objects, parseErrors, rows, errors, response>>

Commit ==
  /\ pc = "commit"
  /\ pc' = "done"
  /\ stored' = rows
  /\ status' = 200
  /\ UNCHANGED <<body, cursor, objects, parseErrors, rows, errors, response>>

CommitFails ==
  /\ pc = "commit" /\ rows # <<>>
  /\ Fail(500)
  /\ UNCHANGED body

Next ==
  \/ RefuseSize \/ RefuseDocument \/ BeginParse
  \/ ParseText \/ EndParse
  \/ RefuseCount \/ BeginValidate
  \/ ValidateObject \/ ValidationEscapes \/ EndValidate
  \/ Persist \/ PersistFails
  \/ Commit \/ CommitFails

Spec == Init /\ [][Next]_vars /\ WF_vars(Next)
-----------------------------------------------------------------------------
TypeOK ==
  /\ body \in InputBodies
  /\ pc \in Stages
  /\ cursor \in Nat
  /\ objects \in Seq(Kinds)
  /\ parseErrors \in Seq({"line", "item"} \X Nat)
  /\ rows \in Seq(Nat)
  /\ errors \in Seq({"line", "item", "event"} \X Nat)
  /\ stored \in Seq(Nat)
  /\ status \in {0, 200, 413, 422, 500}
  /\ response \in [accepted : Nat, rejected : Nat,
                   errors : Seq({"line", "item", "event"} \X Nat)]

(* Every text of a body answered with 200 is accounted for once: accepted  *)
(* and stored, or rejected (events.py:155-156).                            *)
NothingUncounted ==
  status = 200 =>
    /\ response.accepted = Len(stored)
    /\ response.accepted + response.rejected
         = Cardinality({i \in DOMAIN Texts(body) : Texts(body)[i] # "blank"})

(* What is stored is exactly what passed the model, in the order of the    *)
(* body: a rejected event before a good one shifts or hides none           *)
(* (events.py:137-153).                                                    *)
StoresTheGoodOnes ==
  status = 200 => [i \in DOMAIN stored |-> objects[stored[i]]] = Rows(body)

(* The errors of the response are the first ErrorCap of the rejections:    *)
(* each names a text that was rejected, none twice, and none is missing    *)
(* while there is room (events.py:138-165, ndjson.py:38-40).               *)
ErrorsPointAtRejections ==
  status = 200 =>
    /\ Len(response.errors) = SmallerOf(response.rejected, ErrorCap)
    /\ \A i, j \in DOMAIN response.errors :
         i # j => response.errors[i] # response.errors[j]
    /\ \A i \in DOMAIN response.errors :
         LET where == response.errors[i][1]
             n     == response.errors[i][2]
         IN IF where = "event"
              THEN objects[n] = "invalid"
              ELSE IsNoise(Texts(body)[n])

(* Bad rows are soft errors: when the only faults of a batch of lines are  *)
(* lines orjson refuses, lines that are no object and objects that fail    *)
(* validation, nothing but a cap or the database refuses it                *)
(* (events.py:8-9, ndjson.py:7-14).                                        *)
BadRowsAreSoft ==
  /\ status # 0 /\ TakesLines(body) /\ ~body.oversize
  /\ Len(Objects(body)) <= MaxEvents
  /\ \A i \in DOMAIN Objects(body) : Objects(body)[i] # "typeError"
  => status = 200 \/ (status = 500 /\ rows # <<>>)

(* The functional reading of IngestBatch, which the delivery model uses,   *)
(* is what the guards and loops of the handler compute: the same objects,  *)
(* the same refusals, and no 200 for a body it calls poisoned.             *)
AgreesWithReference ==
  /\ pc \in {"persist", "commit"} => Refusal(body) = 0 /\ objects = Objects(body)
  /\ pc = "done" => \/ status = Refusal(body)
                    \/ Refusal(body) = 0 /\ status \in {200, 500}
  /\ status = 200 => ~Poisoned(body)

(* The handler ends on every body: both loops move on.                     *)
AlwaysAnswers == <>(status # 0)

(* "Accepts ... application/json (a single object or an array of objects,  *)
(* useful for curl tests)" (events.py:5-6): every event of a well-formed   *)
(* JSON document of good events is accepted.                               *)
JsonDocumentAccepted ==
  /\ status = 200 /\ ~body.ndjson /\ body.array
  /\ \A i \in DOMAIN body.texts : body.texts[i] = "good"
  => response.accepted = Len(body.texts)
=============================================================================
