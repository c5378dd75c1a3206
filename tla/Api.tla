--------------------------------- MODULE Api ---------------------------------
(***************************************************************************)
(* The requests and responses of /state/{workspace}, and the row a posted  *)
(* body becomes: what the promise (Backend) and the code (Gateway) share.  *)
(***************************************************************************)
EXTENDS Integers

CONSTANTS
  Slots,        \* requests in flight, abandoned statements included
  Workspaces,   \* keys of both tables
  LockIDs,      \* lock IDs clients send; a LOCK body without "ID" decodes to ""
  Values,       \* JSONB values: what a state reads back as, not its bytes
  Bodies,       \* POST bodies: JSONB takes it or not, as what value, "serial"
  Undecodable,  \* a "serial" that does not decode into an int64
  None          \* no lock, no state, no value

Ops == {"GET", "POST", "DELETE", "LOCK", "UNLOCK"}
LockOps == {"LOCK", "UNLOCK"}

Calls ==
  {c \in [op : Ops, ws : Workspaces, id : LockIDs \cup {None}, body : Bodies \cup {None}] :
     /\ c.op \in LockOps <=> c.id # None
     /\ c.op = "POST" <=> c.body # None}

\* Variant: the number is taken as it stands in the body.
RawSerial(b) == b.serial

\* stateService.Update ignores the error of json.Unmarshal: serial is then 0.
HeaderSerial(b) == IF b.serial = Undecodable THEN 0 ELSE b.serial

StateRow(b) == [state |-> b.value, serial |-> HeaderSerial(b)]

StateRows == [state : Values, serial : Int]

Response(status, lock, state) == [status |-> status, lock |-> lock, state |-> state]

Responses == [status : {0, 200, 400, 404, 409, 423, 500},
              lock : LockIDs \cup {None}, state : Values \cup {None}]

ASSUME ApiAssumption ==
  /\ Undecodable \notin Int
  /\ Bodies \subseteq [json : BOOLEAN, value : Values, serial : Int \cup {Undecodable}]

\* None is nothing else.
ASSUME NoneAssumption ==
  None \notin Slots \cup Workspaces \cup LockIDs \cup Bodies \cup Values
              \cup Calls \cup StateRows \cup Responses

BadRequest == Response(400, None, None)
ServerError == Response(500, None, None)
Lost == Response(0, None, None)     \* the connection closed without an answer
=============================================================================
