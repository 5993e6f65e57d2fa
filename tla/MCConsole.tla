------------------------------ MODULE MCConsole ------------------------------
(* A small instance of the console for TLC. *)
EXTENDS Console

CONSTANTS p1, r1, r2, r3

RequestSymmetry == Permutations(Request)

AnyId == Id

NoMessages == <<>>

Claims(subject, role, org) ==
  [subject |-> subject, role |-> role, org |-> org, site |-> None, sites |-> {}]

\* A planner of o1; a developer without an org, whose token does not verify;
\* a viewer of o2 behind the proxy; and nobody.
Callers ==
  {[token |-> Claims("u1", "planner", "o1") @@ [valid |-> TRUE], forwarded |-> None, dev |-> None],
   [token |-> Claims("u1", "planner", "o1") @@ [valid |-> FALSE], forwarded |-> None,
    dev |-> Claims("u3", None, None)],
   [token |-> None, forwarded |-> Claims("u2", "viewer", "o2"), dev |-> None],
   [token |-> None, forwarded |-> None, dev |-> None]}

AllSources == [jwks |-> TRUE, trustForwarded |-> TRUE, devHeaders |-> TRUE]

RunAsset == [r \in {"s1", "s2", "s3"} |-> IF r = "s3" THEN "a2" ELSE "a1"]
RunOrg == [r \in {"s1", "s2", "s3"} |->
             IF r = "s1" THEN "o1" ELSE IF r = "s2" THEN "o2" ELSE None]
RunPlan == [r \in {"s1", "s2", "s3"} |-> r = "s1"]

Event1(asset, org, severity, vibration) ==
  [asset |-> asset, org |-> org, severity |-> severity, kind |-> "alarm",
   vibration |-> vibration, temperature |-> Absent,
   threshold |-> IF vibration = Absent THEN Absent ELSE 90]

Order1(asset, evidence) == [asset |-> asset, evidence |-> evidence]

Feedback1(org, asset, action) == [org |-> org, asset |-> asset, action |-> action]

Proposal1(status, order, attempts, asset, backend, at) ==
  [status |-> status, wo |-> order, attempts |-> attempts, asset |-> asset,
   approval |-> IF attempts = <<>> THEN NoState ELSE Last(attempts),
   backend |-> backend, at |-> at]

\* Two orgs that share asset a1; rows in the window that belong to no day
\* shown, and rows that leave the window within half a day.
Busy ==
  [now |-> 36,
   events |-> <<Event1("a1", "o1", "high", 100) @@ [time |-> 18],
                Event1("a2", "o2", "critical", 80) @@ [time |-> 30],
                Event1("a1", "o2", "low", Absent) @@ [time |-> 30],
                Event1("a3", "o1", "low", Absent) @@ [time |-> 34]>>,
   rollups |-> <<[asset |-> "a3", type |-> "temperature", period |-> "6h", max |-> Absent,
                  mean |-> 85, flags |-> 2, time |-> 30]>>,
   orders |-> <<Order1("a2", None) @@ [created |-> 33, completed |-> Absent],
                Order1("a2", 2) @@ [created |-> 33, completed |-> 34],
                Order1("a1", 1) @@ [created |-> 33, completed |-> Absent]>>,
   feedback |-> <<Feedback1("o1", "a1", "accept") @@ [user |-> "u1", at |-> 18],
                  Feedback1("o2", "a2", "reject") @@ [user |-> "u2", at |-> 30]>>,
   proposals |->
     <<Proposal1("approved", "w1", <<"failure", "success">>, "a1", "maximo", 30),
       Proposal1("pending", NoWorkOrder, <<"failure", "failure">>, "a2", "unknown", 30),
       Proposal1("queued-offline", NoWorkOrder, <<"queued-offline">>, "a2", "unknown", 30),
       Proposal1("pending", NoWorkOrder, <<>>, None, "unknown", 18)>>]

Quiet == [Busy EXCEPT !.events = Tail(@), !.orders = <<>>, !.feedback = <<>>]

Databases == {Busy, Quiet}

NewEvents == {Event1("a2", "o1", "low", Absent), Event1("a4", "o1", "critical", 110)}

NewOrders == {Order1("a1", 1), Order1("a4", None)}

\* One unit is registered, one is not; downtimes stated, derived, unknown,
\* below zero and longer than the window.
Failure1(id, unit, start, restored, down) ==
  [id |-> id, tenant |-> None, unit |-> unit, asset |-> None, start |-> start,
   restored |-> restored, down |-> down]

FailureBodies ==
  {Failure1("f1", "u1", 1, 3, None), Failure1("f1", "u2", 2, None, 6),
   Failure1("f2", "u1", 3, None, None), Failure1("f4", "u2", 2, 1, None),
   Failure1("f6", "u1", None, 3, None),
   [Failure1("f3", "u2", 2, None, 0 - 1) EXCEPT !.tenant = "o2"],
   [Failure1("f5", None, 4, None, 1) EXCEPT !.asset = "a1"]}

OneUnit == [u \in {"u1"} |-> "PUMP"]

UnitBodies == {[unit |-> "u1", class |-> "pump"], [unit |-> "u2", class |-> "PUMP"]}

OneAlarm == {[id |-> "e1", asset |-> "a1", time |-> 4]}

UpperCase == [c \in {"PUMP", "pump"} |-> "PUMP"]

FileLength == [f \in {"d1", "d2"} |-> IF f = "d1" THEN 3 ELSE 1]

FileBlanks == [f \in {"d1", "d2"} |-> IF f = "d1" THEN {1} ELSE {}]

NewFeedback == {Feedback1("o1", "a1", "edited"), Feedback1(None, None, "accept")}
=============================================================================
