--------------------------- MODULE Console_proofs ---------------------------
(***************************************************************************)
(* Theorems about Console, for any bounds: what the tables of pages and    *)
(* operations give, then the machine that runs them.                       *)
(***************************************************************************)
EXTENDS Console, FiniteSetTheorems, TLAPS

-----------------------------------------------------------------------------
(* Keys *)

LEMMA PrefixOfTwo ==
  ASSUME NEW a, NEW b, NEW c PROVE IsPrefix(<<a>>, <<b, c>>) <=> a = b
BY DEF IsPrefix

LEMMA PrefixOfThree ==
  ASSUME NEW a, NEW b, NEW c, NEW d PROVE IsPrefix(<<a>>, <<b, c, d>>) <=> a = b
BY DEF IsPrefix

LEMMA PrefixOfOne ==
  ASSUME NEW a, NEW b PROVE IsPrefix(<<a>>, <<b>>) <=> a = b
BY DEF IsPrefix

LEMMA WholeKeyOfTwo ==
  ASSUME NEW a, NEW b PROVE IsPrefix(<<a, b>>, <<a, b>>)
BY DEF IsPrefix

LEMMA WholeKeyOfThree ==
  ASSUME NEW a, NEW b, NEW c PROVE IsPrefix(<<a, b, c>>, <<a, b, c>>)
BY DEF IsPrefix

LEMMA ShowsByHead ==
  ASSUME NEW a, NEW b PROVE Shows(<<a, b>>) = Shown[a]
BY DEF Shows

LEMMA ShowsByName ==
  ASSUME NEW a PROVE Shows(<<a>>) = Shown[a]
BY DEF Shows

LEMMA ShowsBelowTrip ==
  ASSUME NEW a, NEW b, NEW c PROVE Shows(<<a, b, c>>) = {c}
BY DEF Shows

\* The rows of Shown
LEMMA Heads ==
  DOMAIN Shown =
    {"vehicles", "drivers", "driver", "users", "user", "schools", "school",
     "superPlatform", "superSchool", "routes", "route", "students", "student",
     "requests", "complaints", "feedback", "alerts", "trips", "trip", "fees",
     "invoices", "platformInvoices", "platformSummary", "notifications"}
BY DEF Shown

LEMMA Rows ==
  /\ Shown["vehicles"] = {"vehicle"} /\ Shown["drivers"] = {"driver"}
  /\ Shown["driver"] = {"oneDriver"} /\ Shown["users"] = {"user"}
  /\ Shown["user"] = {"oneUser"} /\ Shown["schools"] = {"school"}
  /\ Shown["school"] = {"school"} /\ Shown["superPlatform"] = Everything
  /\ Shown["superSchool"] = Everything /\ Shown["routes"] = {"route"}
  /\ Shown["route"] = {"oneRoute"} /\ Shown["students"] = {"student"}
  /\ Shown["student"] = {"oneStudent"} /\ Shown["requests"] = {"request"}
  /\ Shown["complaints"] = {"complaint"} /\ Shown["feedback"] = {"feedback"}
  /\ Shown["alerts"] = {"alert"} /\ Shown["trips"] = {"trip"}
  /\ Shown["trip"] = {"trip"} /\ Shown["fees"] = {"fee"}
  /\ Shown["invoices"] = {"invoice"} /\ Shown["platformInvoices"] = {"platformInvoice"}
  /\ Shown["platformSummary"] = {"platformInvoice"}
  /\ Shown["notifications"] = {"notification"}
BY DEF Shown

Overviews == {"superPlatform", "superSchool"}

\* What each kind of data is shown by
LEMMA Kinds ==
  ASSUME NEW a \in DOMAIN Shown
  PROVE  /\ "vehicle" \in Shown[a] => a \in {"vehicles"} \cup Overviews
         /\ "driver" \in Shown[a] => a \in {"drivers"} \cup Overviews
         /\ "user" \in Shown[a] => a \in {"users"} \cup Overviews
         /\ "school" \in Shown[a] => a \in {"school", "schools"} \cup Overviews
         /\ "route" \in Shown[a] => a \in {"routes"} \cup Overviews
         /\ "student" \in Shown[a] => a \in {"students"} \cup Overviews
         /\ "alert" \in Shown[a] => a \in {"alerts"} \cup Overviews
         /\ "trip" \in Shown[a] => a \in {"trip", "trips"} \cup Overviews
         /\ "oneDriver" \in Shown[a] => a = "driver"
         /\ "oneUser" \in Shown[a] => a = "user"
         /\ "oneRoute" \in Shown[a] => a = "route"
         /\ "request" \in Shown[a] => a = "requests"
         /\ "complaint" \in Shown[a] => a = "complaints"
         /\ "feedback" \in Shown[a] => a = "feedback"
         /\ "fee" \in Shown[a] => a = "fees"
         /\ "invoice" \in Shown[a] => a = "invoices"
         /\ "platformInvoice" \in Shown[a] => a \in {"platformInvoices", "platformSummary"}
         /\ "notification" \in Shown[a] => a = "notifications"
         /\ "absences" \notin Shown[a]
BY Heads, Rows DEF Everything, Overviews

-----------------------------------------------------------------------------
(* The queries of each portal *)

AdminKeys ==
  {Bell, VehicleNames, <<"vehicles", "list">>, <<"vehicles", "1">>, DriverNames,
   <<"drivers", "list">>, <<"driver", "id">>, <<"users", "list">>, <<"user", "id">>,
   <<"student", "id">>, <<"requests", "list">>, <<"requests", "pending">>,
   <<"complaints", "list">>, <<"feedback", "list">>, <<"alerts", "list">>,
   <<"alerts", "open">>, <<"fees", "100">>, <<"invoices", "list">>, AllRoutes,
   <<"routes", "1">>, <<"route", "id">>, School, <<"trips", "active">>, <<"trip", "id">>}
SuperKeys ==
  {Bell, <<"schools", "list">>, SchoolNames, Platform, <<"superSchool", "id">>,
   <<"users", "list">>, <<"platformInvoices", "list">>, <<"platformSummary">>}
ParentKeys ==
  {Bell, MyChildren, <<"requests", "assigned">>, <<"requests", "mine">>,
   <<"trips", "today">>, <<"trip", "id">>, <<"trip", "id", "absences">>,
   <<"trip", "id", "stops">>, <<"trip", "id", "gps-log">>, <<"invoices", "mine">>,
   <<"notifications", "list">>}
Keys == [admin |-> AdminKeys, super |-> SuperKeys, parent |-> ParentKeys]

LEMMA AdminKey ==
  ASSUME NEW q \in AdminKeys
  PROVE  /\ \A x : IsPrefix(<<x>>, q) <=> x = q[1]
         /\ Shows(q) = Shown[q[1]]
         /\ q[1] \in DOMAIN Shown \ ({"schools"} \cup Overviews)
         /\ q[1] = "drivers" => q \in {DriverNames, <<"drivers", "list">>}
         /\ q[1] = "users" => q = <<"users", "list">>
         /\ q[1] = "trips" => q = <<"trips", "active">>
         /\ q[1] \in {"driver", "user", "route", "school", "trip"} => q = <<q[1], "id">>
<1>1. \E a, b : q = <<a, b>>
  BY DEF AdminKeys, School, Bell, VehicleNames, DriverNames, AllRoutes
<1>2. (\A x : IsPrefix(<<x>>, q) <=> x = q[1]) /\ Shows(q) = Shown[q[1]]
  BY <1>1, PrefixOfTwo, ShowsByHead
<1>3. q[1] \in DOMAIN Shown \ ({"schools"} \cup Overviews)
  BY Heads DEF Overviews, AdminKeys, School, Bell, VehicleNames, DriverNames, AllRoutes
<1>4. /\ q[1] = "drivers" => q \in {DriverNames, <<"drivers", "list">>}
      /\ q[1] = "users" => q = <<"users", "list">>
      /\ q[1] = "trips" => q = <<"trips", "active">>
      /\ q[1] \in {"driver", "user", "route", "school", "trip"} => q = <<q[1], "id">>
  BY DEF AdminKeys, School, Bell, VehicleNames, DriverNames, AllRoutes
<1> QED BY <1>2, <1>3, <1>4

LEMMA SuperKey ==
  ASSUME NEW q \in SuperKeys
  PROVE  /\ \A x : IsPrefix(<<x>>, q) <=> x = q[1]
         /\ Shows(q) = Shown[q[1]]
         /\ q[1] \in {"schools", "users", "platformInvoices", "platformSummary",
                      "notifications"} \cup Overviews
         /\ q[1] = "superPlatform" => q = Platform
         /\ q[1] = "superSchool" => q = <<"superSchool", "id">>
<1>1. (\E a, b : q = <<a, b>>) \/ \E a : q = <<a>>
  BY DEF SuperKeys, Bell, SchoolNames, Platform
<1>2. (\A x : IsPrefix(<<x>>, q) <=> x = q[1]) /\ Shows(q) = Shown[q[1]]
  <2>1. CASE \E a, b : q = <<a, b>>
    BY <2>1, PrefixOfTwo, ShowsByHead
  <2>2. CASE \E a : q = <<a>>
    BY <2>2, PrefixOfOne, ShowsByName
  <2> QED BY <1>1, <2>1, <2>2
<1>3. /\ q[1] \in {"schools", "users", "platformInvoices", "platformSummary",
                   "notifications"} \cup Overviews
      /\ q[1] = "superPlatform" => q = Platform
      /\ q[1] = "superSchool" => q = <<"superSchool", "id">>
  BY DEF Overviews, SuperKeys, Bell, SchoolNames, Platform
<1> QED BY <1>2, <1>3

\* The three queries below one trip have their own kinds.
BelowTrip == {<<"trip", "id", "absences">>, <<"trip", "id", "stops">>, <<"trip", "id", "gps-log">>}
LEMMA ParentKey ==
  ASSUME NEW q \in ParentKeys
  PROVE  /\ \A x : IsPrefix(<<x>>, q) <=> x = q[1]
         /\ q \in BelowTrip => Shows(q) = {q[3]} /\ q[3] \in {"absences", "stops", "gps-log"}
                               /\ q = <<"trip", "id", q[3]>>
         /\ q \notin BelowTrip => Shows(q) = Shown[q[1]]
         /\ q[1] \in {"students", "requests", "trips", "trip", "invoices", "notifications"}
<1>1. CASE q \in BelowTrip
  <2>1. /\ q = <<q[1], q[2], q[3]>> /\ q[3] \in {"absences", "stops", "gps-log"}
        /\ q[1] = "trip" /\ q[2] = "id"
    BY <1>1 DEF BelowTrip
  <2> QED BY <1>1, <2>1, PrefixOfThree, ShowsBelowTrip
<1>2. CASE q \notin BelowTrip
  <2>1. \E a, b : q = <<a, b>>
    BY <1>2 DEF ParentKeys, BelowTrip, Bell, MyChildren
  <2>2. q[1] \in {"students", "requests", "trips", "trip", "invoices", "notifications"}
    BY <1>2 DEF ParentKeys, BelowTrip, Bell, MyChildren
  <2> QED BY <1>2, <2>1, <2>2, PrefixOfTwo, ShowsByHead
<1> QED BY <1>1, <1>2

-----------------------------------------------------------------------------
(* Operations *)

\* Whether its success tells the cache of every query whose answer it changes, Gaps
\* excepted
Told(op, q) ==
  op.changes \cap Shows(q) # {} =>
    \/ <<op.does, q>> \in Gaps
    \/ q \in op.sets
    \/ \E prefix \in op.invalidates : IsPrefix(prefix, q)
\* What the machine needs of an operation
Fine(op, names, keys) ==
  /\ op.goesTo \subseteq names /\ op.sets \subseteq {School}
  /\ \A q \in keys : Told(op, q)

\* A kind of data that only the queries under one name show
Only(keys, x, y) == \A q \in keys : x \in Shows(q) => IsPrefix(<<y>>, q)

LEMMA OneKind ==
  ASSUME NEW op, NEW keys, NEW x, NEW y,
         op.changes = {x}, <<y>> \in op.invalidates, Only(keys, x, y)
  PROVE  \A q \in keys : Told(op, q)
BY DEF Only, Told

LEMMA NoKind ==
  ASSUME NEW op, NEW keys, op.changes = {} PROVE \A q \in keys : Told(op, q)
BY DEF Told

LEMMA AdminOnly ==
  /\ Only(AdminKeys, "vehicle", "vehicles") /\ Only(AdminKeys, "route", "routes")
  /\ Only(AdminKeys, "request", "requests") /\ Only(AdminKeys, "alert", "alerts")
  /\ Only(AdminKeys, "complaint", "complaints")
  /\ Only(AdminKeys, "feedback", "feedback")
  /\ Only(AdminKeys, "fee", "fees") /\ Only(AdminKeys, "invoice", "invoices")
  /\ Only(AdminKeys, "notification", "notifications")
BY AdminKey, Kinds DEF Only

LEMMA SuperOnly == Only(SuperKeys, "notification", "notifications")
BY SuperKey, Kinds, Heads DEF Only, Overviews

LEMMA ParentOnly ==
  /\ Only(ParentKeys, "student", "students") /\ Only(ParentKeys, "request", "requests")
  /\ Only(ParentKeys, "complaint", "complaints")
  /\ Only(ParentKeys, "notification", "notifications")
<1>1. ASSUME NEW q \in ParentKeys, q \notin BelowTrip
      PROVE  /\ "student" \in Shows(q) => IsPrefix(<<"students">>, q)
             /\ "request" \in Shows(q) => IsPrefix(<<"requests">>, q)
             /\ "complaint" \in Shows(q) => IsPrefix(<<"complaints">>, q)
             /\ "notification" \in Shows(q) => IsPrefix(<<"notifications">>, q)
  BY <1>1, ParentKey, Kinds, Heads DEF Overviews
<1>2. ASSUME NEW q \in ParentKeys, q \in BelowTrip
      PROVE  Shows(q) \cap {"student", "request", "complaint", "notification"} = {}
  BY <1>2, ParentKey
<1> QED BY <1>1, <1>2 DEF Only

AdminNames == DOMAIN adminRoutes
SuperNames == DOMAIN superRoutes
ParentNames == DOMAIN parentRoutes

LEMMA VehicleOps ==
  \A op \in {SaveVehicle, DeleteVehicle, SetupVehicle} : Fine(op, AdminNames, AdminKeys)
<1>1. ASSUME NEW op \in {SaveVehicle, DeleteVehicle, SetupVehicle}
      PROVE  /\ op.changes = {"vehicle"} /\ <<"vehicles">> \in op.invalidates
             /\ op.sets = {} /\ op.goesTo = {}
  BY DEF SaveVehicle, DeleteVehicle, SetupVehicle, Op
<1> QED BY <1>1, OneKind, AdminOnly DEF Fine

LEMMA RequestOps ==
  \A op \in {AssignRequest, RejectRequest} : Fine(op, AdminNames, AdminKeys)
<1>1. ASSUME NEW op \in {AssignRequest, RejectRequest}
      PROVE  /\ op.changes = {"request"} /\ <<"requests">> \in op.invalidates
             /\ op.sets = {} /\ op.goesTo = {}
  BY DEF AssignRequest, RejectRequest, Op
<1> QED BY <1>1, OneKind, AdminOnly DEF Fine

LEMMA ComplaintOps == Fine(UpdateComplaint, AdminNames, AdminKeys)
<1>1. /\ UpdateComplaint.changes = {"complaint"}
      /\ <<"complaints">> \in UpdateComplaint.invalidates
      /\ UpdateComplaint.sets = {} /\ UpdateComplaint.goesTo = {}
  BY DEF UpdateComplaint, Op
<1> QED BY <1>1, OneKind, AdminOnly DEF Fine

LEMMA FeedbackOps == Fine(ReviewOfFeedback, AdminNames, AdminKeys)
<1>1. /\ ReviewOfFeedback.changes = {"feedback"}
      /\ <<"feedback">> \in ReviewOfFeedback.invalidates
      /\ ReviewOfFeedback.sets = {} /\ ReviewOfFeedback.goesTo = {}
  BY DEF ReviewOfFeedback, Op
<1> QED BY <1>1, OneKind, AdminOnly DEF Fine

LEMMA FeeOps == \A op \in {AddFee, ToggleFee} : Fine(op, AdminNames, AdminKeys)
<1>1. ASSUME NEW op \in {AddFee, ToggleFee}
      PROVE  /\ op.changes = {"fee"} /\ <<"fees">> \in op.invalidates
             /\ op.sets = {} /\ op.goesTo = {}
  BY DEF AddFee, ToggleFee, Op
<1> QED BY <1>1, OneKind, AdminOnly DEF Fine

LEMMA InvoiceOps ==
  \A op \in {GenerateInvoices, RecordPayment} : Fine(op, AdminNames, AdminKeys)
<1>1. ASSUME NEW op \in {GenerateInvoices, RecordPayment}
      PROVE  /\ op.changes = {"invoice"} /\ <<"invoices">> \in op.invalidates
             /\ op.sets = {} /\ op.goesTo = {}
  BY DEF GenerateInvoices, RecordPayment, Op
<1> QED BY <1>1, OneKind, AdminOnly DEF Fine

LEMMA RouteNames == "route" \in AdminNames
BY DEF AdminNames, adminRoutes

LEMMA RouteOps ==
  \A op \in {CreateRoute, SetupRoute} : Fine(op, AdminNames, AdminKeys)
<1>1. ASSUME NEW op \in {CreateRoute, SetupRoute}
      PROVE  /\ op.changes = {"route"} /\ <<"routes">> \in op.invalidates
             /\ op.sets = {} /\ op.goesTo = {"route"}
  BY DEF CreateRoute, SetupRoute, Op
<1> QED BY <1>1, OneKind, AdminOnly, RouteNames DEF Fine

LEMMA DeleteRouteFine == Fine(DeleteRoute, AdminNames, AdminKeys)
<1>1. /\ DeleteRoute.changes = {"route", "oneRoute"} /\ DeleteRoute.does = "DeleteRoute"
      /\ DeleteRoute.invalidates = {<<"routes">>}
      /\ DeleteRoute.sets = {} /\ DeleteRoute.goesTo = {}
  BY DEF DeleteRoute, Op
<1>2. ASSUME NEW q \in AdminKeys, DeleteRoute.changes \cap Shows(q) # {}
      PROVE  q[1] = "routes" \/ q = <<"route", "id">>
  BY <1>1, <1>2, AdminKey, Kinds
<1> QED BY <1>1, <1>2, AdminKey DEF Fine, Told, Gaps

LEMMA AlertOps == \A op \in {Acknowledge, Resolve} : Fine(op, AdminNames, AdminKeys)
<1>1. Fine(Acknowledge, AdminNames, AdminKeys)
  <2>1. /\ Acknowledge.changes = {"alert"} /\ <<"alerts">> \in Acknowledge.invalidates
        /\ Acknowledge.sets = {} /\ Acknowledge.goesTo = {}
    BY DEF Acknowledge, Op
  <2> QED BY <2>1, OneKind, AdminOnly DEF Fine
<1>2. Fine(Resolve, AdminNames, AdminKeys)
  <2>1. /\ Resolve.changes = {"alert", "trip"} /\ Resolve.does = "Resolve"
        /\ Resolve.invalidates = {<<"alerts">>, <<"trips", "active">>}
        /\ Resolve.sets = {} /\ Resolve.goesTo = {}
    BY DEF Resolve, Op
  <2>2. ASSUME NEW q \in AdminKeys, Resolve.changes \cap Shows(q) # {}
        PROVE  q[1] = "alerts" \/ q = <<"trips", "active">> \/ q = <<"trip", "id">>
    BY <2>1, <2>2, AdminKey, Kinds
  <2> QED BY <2>1, <2>2, AdminKey, WholeKeyOfTwo DEF Fine, Told, Gaps
<1> QED BY <1>1, <1>2

\* The school is shown by one query of the admin's, which saving sets.
LEMMA SchoolOps ==
  \A op \in {SaveProfile, SaveSetting, SetupProfile, RegenerateCode} :
    Fine(op, AdminNames, AdminKeys)
<1>1. ASSUME NEW q \in AdminKeys, "school" \in Shows(q) PROVE q = School
  BY <1>1, AdminKey, Kinds DEF School
<1>2. ASSUME NEW op \in {SaveProfile, SaveSetting, SetupProfile}
      PROVE  op.changes = {"school"} /\ op.sets = {School} /\ op.goesTo = {}
  BY DEF SaveProfile, SaveSetting, SetupProfile, Op
<1>3. /\ RegenerateCode.changes = {"school"} /\ RegenerateCode.invalidates = {School}
      /\ RegenerateCode.sets = {} /\ RegenerateCode.goesTo = {}
  BY DEF RegenerateCode, Op
<1>4. IsPrefix(School, School)
  BY WholeKeyOfTwo DEF School
<1>5. ASSUME NEW op \in {SaveProfile, SaveSetting, SetupProfile}
      PROVE  Fine(op, AdminNames, AdminKeys)
  BY <1>1, <1>2 DEF Fine, Told
<1>6. Fine(RegenerateCode, AdminNames, AdminKeys)
  BY <1>1, <1>3, <1>4 DEF Fine, Told
<1> QED BY <1>5, <1>6

\* What the admin's queries show of the staff
LEMMA StaffShown ==
  ASSUME NEW q \in AdminKeys, Staff \cap Shows(q) # {}
  PROVE  /\ q \in {<<"users", "list">>, <<"user", "id">>, <<"driver", "id">>,
                   <<"drivers", "list">>, DriverNames}
         /\ {"user", "driver"} \cap Shows(q) # {} =>
              q \in {<<"users", "list">>, <<"drivers", "list">>, DriverNames}
BY AdminKey, Kinds DEF Staff

LEMMA DriverOps ==
  \A op \in {CreateDriver, EditDriver, AssignVehicle} : Fine(op, AdminNames, AdminKeys)
<1>1. \A b : IsPrefix(<<"drivers">>, <<"drivers", b>>)
  BY PrefixOfTwo
<1>2. /\ CreateDriver.changes = {"user", "driver"} /\ CreateDriver.does = "CreateDriver"
      /\ EditDriver.changes = Staff /\ EditDriver.does = "EditDriver"
      /\ AssignVehicle.changes = {}
  BY DEF CreateDriver, EditDriver, AssignVehicle, Op
<1>3. ASSUME NEW op \in {CreateDriver, EditDriver, AssignVehicle}
      PROVE  op.invalidates = {<<"drivers">>} /\ op.sets = {} /\ op.goesTo = {}
  BY DEF CreateDriver, EditDriver, AssignVehicle, Op
<1>4. ASSUME NEW q \in AdminKeys PROVE Told(CreateDriver, q)
  BY <1>1, <1>2, <1>3, StaffShown DEF Told, Gaps, DriverNames, Staff
<1>5. ASSUME NEW q \in AdminKeys PROVE Told(EditDriver, q)
  BY <1>1, <1>2, <1>3, StaffShown DEF Told, Gaps, DriverNames
<1>6. ASSUME NEW q \in AdminKeys PROVE Told(AssignVehicle, q)
  BY <1>2, NoKind
<1> QED BY <1>3, <1>4, <1>5, <1>6 DEF Fine

StaffControls == {AddStaff, UpdateUser, ActivateUser, Deactivate}
LEMMA StaffControlsAre ==
  ASSUME NEW op \in StaffControls
  PROVE  /\ op.changes \subseteq Staff /\ op.does \in StaffOps
         /\ op.invalidates = {<<"users">>} /\ op.sets = {} /\ op.goesTo = {}
BY DEF StaffControls, AddStaff, UpdateUser, ActivateUser, Deactivate, Op, Staff, StaffOps

LEMMA AdminStaffOps ==
  \A op \in StaffControls \cup {ResetPassword} : Fine(op, AdminNames, AdminKeys)
<1>1. IsPrefix(<<"users">>, <<"users", "list">>)
  BY PrefixOfTwo
<1>2. ASSUME NEW op \in StaffControls, NEW q \in AdminKeys PROVE Told(op, q)
  <2>1. SUFFICES ASSUME Staff \cap Shows(q) # {}, q # <<"users", "list">>
                 PROVE  <<op.does, q>> \in Gaps
    BY <1>1, StaffControlsAre DEF Told
  <2> QED BY <2>1, StaffShown, StaffControlsAre DEF Gaps
<1>3. ResetPassword.changes = {} /\ ResetPassword.sets = {} /\ ResetPassword.goesTo = {}
  BY DEF ResetPassword, Op
<1> QED BY <1>2, <1>3, StaffControlsAre, NoKind DEF Fine

LEMMA SuperStaffOps ==
  \A op \in StaffControls \cup {ResetPassword} : Fine(op, SuperNames, SuperKeys)
<1>1. ASSUME NEW op \in StaffControls, NEW q \in SuperKeys PROVE Told(op, q)
  <2>1. SUFFICES ASSUME Staff \cap Shows(q) # {}, ~IsPrefix(<<"users">>, q)
                 PROVE  <<op.does, q>> \in Gaps
    BY StaffControlsAre DEF Told
  <2>2. q \in {Platform, <<"superSchool", "id">>}
    BY <2>1, SuperKey, Kinds, Heads DEF Staff, Overviews
  <2> QED BY <2>2, StaffControlsAre DEF Gaps
<1>2. ResetPassword.changes = {} /\ ResetPassword.sets = {} /\ ResetPassword.goesTo = {}
  BY DEF ResetPassword, Op
<1> QED BY <1>1, <1>2, StaffControlsAre, NoKind DEF Fine

LEMMA CreateSchoolFine == Fine(CreateSchool, SuperNames, SuperKeys)
<1>1. /\ CreateSchool.changes = {"school"} /\ CreateSchool.does = "CreateSchool"
      /\ CreateSchool.invalidates = {<<"schools">>}
      /\ CreateSchool.sets = {} /\ CreateSchool.goesTo = {}
  BY DEF CreateSchool, Op
<1>2. ASSUME NEW q \in SuperKeys, "school" \in Shows(q), ~IsPrefix(<<"schools">>, q)
      PROVE  q \in {Platform, <<"superSchool", "id">>}
  BY <1>2, SuperKey, Kinds, Heads DEF Overviews
<1> QED BY <1>1, <1>2 DEF Fine, Told, Gaps

LEMMA PlatformOps ==
  \A op \in {GeneratePlatform, RecordPlatform} : Fine(op, SuperNames, SuperKeys)
<1>1. ASSUME NEW op \in {GeneratePlatform, RecordPlatform}
      PROVE  /\ op.changes = {"platformInvoice"} /\ op.sets = {} /\ op.goesTo = {}
             /\ op.invalidates = {<<"platformInvoices">>, <<"platformSummary">>}
  BY DEF GeneratePlatform, RecordPlatform, PlatformKeys, Op
<1>2. ASSUME NEW q \in SuperKeys, "platformInvoice" \in Shows(q)
      PROVE  IsPrefix(<<"platformInvoices">>, q) \/ IsPrefix(<<"platformSummary">>, q)
  BY <1>2, SuperKey, Kinds, Heads DEF Overviews
<1> QED BY <1>1, <1>2 DEF Fine, Told

LEMMA ParentNamesAre == "requests" \in ParentNames
BY DEF ParentNames, parentRoutes

LEMMA ParentOps ==
  \A op \in {AddChild, Complain, RequestTransport, MarkRead, MarkAllRead} :
    Fine(op, ParentNames, ParentKeys)
<1>1. /\ \A op \in {AddChild, Complain, MarkRead, MarkAllRead} : op.sets = {} /\ op.goesTo = {}
      /\ RequestTransport.sets = {} /\ RequestTransport.goesTo = {"requests"}
  BY DEF AddChild, Complain, RequestTransport, MarkRead, MarkAllRead, Op
<1>2. AddChild.changes = {"student"} /\ <<"students">> \in AddChild.invalidates
  BY DEF AddChild, Op
<1>3. Complain.changes = {"complaint"} /\ <<"complaints">> \in Complain.invalidates
  BY DEF Complain, Op
<1>4. /\ RequestTransport.changes = {"request"}
      /\ <<"requests">> \in RequestTransport.invalidates
  BY DEF RequestTransport, Op
<1>5. /\ MarkRead.changes = {"notification"} /\ <<"notifications">> \in MarkRead.invalidates
      /\ MarkAllRead.changes = {"notification"}
      /\ <<"notifications">> \in MarkAllRead.invalidates
  BY DEF MarkRead, MarkAllRead, Op
<1>6. ASSUME NEW q \in ParentKeys
      PROVE  /\ Told(AddChild, q) /\ Told(Complain, q) /\ Told(RequestTransport, q)
             /\ Told(MarkRead, q) /\ Told(MarkAllRead, q)
  BY <1>2, <1>3, <1>4, <1>5, OneKind, ParentOnly
<1> QED BY <1>1, <1>6, ParentNamesAre DEF Fine

LEMMA OtherParentOps ==
  \A op \in {MarkAbsent, Rate, SavePreference} : Fine(op, ParentNames, ParentKeys)
<1>1. /\ MarkAbsent.changes = {"absences"}
      /\ MarkAbsent.invalidates = {<<"trip", "id", "absences">>}
      /\ Rate.changes = {"feedback"} /\ SavePreference.changes = {}
  BY DEF MarkAbsent, Rate, SavePreference, Op
<1>2. ASSUME NEW op \in {MarkAbsent, Rate, SavePreference}
      PROVE  op.sets = {} /\ op.goesTo = {}
  BY DEF MarkAbsent, Rate, SavePreference, Op
<1>3. ASSUME NEW q \in ParentKeys PROVE Told(MarkAbsent, q)
  BY <1>1, ParentKey, Kinds, Heads, WholeKeyOfThree DEF Told
<1>4. ASSUME NEW q \in ParentKeys PROVE Told(Rate, q)
  BY <1>1, ParentKey, Kinds, Heads DEF Told
<1>5. ASSUME NEW q \in ParentKeys PROVE Told(SavePreference, q)
  BY <1>1, NoKind
<1> QED BY <1>2, <1>3, <1>4, <1>5 DEF Fine

LEMMA BellOps ==
  \A op \in NotificationBell.ops :
    /\ Fine(op, AdminNames, AdminKeys) /\ Fine(op, SuperNames, SuperKeys)
    /\ Fine(op, ParentNames, ParentKeys)
<1>1. NotificationBell.ops = {BellRead, BellReadAll}
  BY DEF NotificationBell, Page
<1>2. ASSUME NEW op \in {BellRead, BellReadAll}
      PROVE  /\ op.changes = {"notification"} /\ <<"notifications">> \in op.invalidates
             /\ op.sets = {} /\ op.goesTo = {}
  BY DEF BellRead, BellReadAll, Op
<1> QED BY <1>1, <1>2, OneKind, AdminOnly, SuperOnly, ParentOnly DEF Fine

-----------------------------------------------------------------------------
(* Pages *)

Reads(p) == p.reads \cup UNION {d.reads : d \in p.dialogs}

\* A dialog that can be closed while it waits holds only operations that leave the page,
\* and its operations are not on the page or in the bell as well.
Parted(p) ==
  \A d \in p.dialogs : /\ d.held \/ \A op \in d.ops : op.goesTo # {}
                       /\ d.ops \cap (p.ops \cup NotificationBell.ops) = {}
\* What the machine needs of a page
Sound(p, names, keys) ==
  /\ Reads(p) \subseteq keys /\ School \notin p.polls
  /\ \A op \in OpsOf(p) : Fine(op, names, keys)
  /\ Parted(p)

LEMMA VehiclesPageSound == Sound(VehiclesPage, AdminNames, AdminKeys)
<1>1. Reads(VehiclesPage) \subseteq AdminKeys /\ School \notin VehiclesPage.polls
  BY DEF Reads, VehiclesPage, Page, VehicleForm, ConfirmDialog, Dialog, AdminKeys,
     School
<1>2. OpsOf(VehiclesPage) \subseteq {SaveVehicle, DeleteVehicle}
  BY DEF OpsOf, VehiclesPage, Page, VehicleForm, ConfirmDialog, Dialog
<1>3. Parted(VehiclesPage)
  BY DEF Parted, VehiclesPage, Page, VehicleForm, ConfirmDialog, Dialog,
     NotificationBell, BellRead, BellReadAll, SaveVehicle, DeleteVehicle, Op
<1> QED BY <1>1, <1>2, <1>3, VehicleOps DEF Sound

LEMMA DriversPageSound == Sound(DriversPage, AdminNames, AdminKeys)
<1>1. Reads(DriversPage) \subseteq AdminKeys /\ School \notin DriversPage.polls
  BY DEF Reads, DriversPage, Page, AddDriverForm, EditDriverForm, AssignForm, Dialog,
     AdminKeys, VehicleNames, School
<1>2. OpsOf(DriversPage) \subseteq {CreateDriver, EditDriver, AssignVehicle}
  BY DEF OpsOf, DriversPage, Page, AddDriverForm, EditDriverForm, AssignForm, Dialog
<1>3. Parted(DriversPage)
  BY DEF Parted, DriversPage, Page, AddDriverForm, EditDriverForm, AssignForm, Dialog,
     NotificationBell, BellRead, BellReadAll, CreateDriver, EditDriver, AssignVehicle,
     Op
<1> QED BY <1>1, <1>2, <1>3, DriverOps DEF Sound

LEMMA PeoplePageSound == Sound(PeoplePage, AdminNames, AdminKeys)
<1>1. Reads(PeoplePage) \subseteq AdminKeys /\ School \notin PeoplePage.polls
  BY DEF Reads, PeoplePage, Paginated, Page, AddStaffDialog, ResetPasswordForm,
     StaffRowMenu, EditUserForm, DeactivateDialog, ConfirmDialog, Dialog, StaffControls,
     AdminKeys, School
<1>2. OpsOf(PeoplePage) \subseteq StaffControls \cup {ResetPassword}
  BY DEF OpsOf, PeoplePage, Paginated, Page, AddStaffDialog, ResetPasswordForm,
     StaffRowMenu, EditUserForm, DeactivateDialog, ConfirmDialog, Dialog, StaffControls
<1>3. Parted(PeoplePage)
  BY DEF Parted, PeoplePage, Paginated, Page, AddStaffDialog, ResetPasswordForm,
     StaffRowMenu, EditUserForm, DeactivateDialog, ConfirmDialog, Dialog, StaffControls,
     NotificationBell, BellRead, BellReadAll, AddStaff, UpdateUser, ActivateUser,
     Deactivate, ResetPassword, Op
<1> QED BY <1>1, <1>2, <1>3, AdminStaffOps DEF Sound

LEMMA RequestsPageSound == Sound(RequestsPage, AdminNames, AdminKeys)
<1>1. Reads(RequestsPage) \subseteq AdminKeys /\ School \notin RequestsPage.polls
  BY DEF Reads, RequestsPage, Paginated, Page, EntityMap, ReviewRequest,
     ReadOnlyAssignment, Dialog, AdminKeys, AllRoutes, School
<1>2. OpsOf(RequestsPage) \subseteq {AssignRequest, RejectRequest}
  BY DEF OpsOf, RequestsPage, Paginated, Page, EntityMap, ReviewRequest,
     ReadOnlyAssignment, Dialog
<1>3. Parted(RequestsPage)
  BY DEF Parted, RequestsPage, Paginated, Page, EntityMap, ReviewRequest,
     ReadOnlyAssignment, Dialog, NotificationBell, BellRead, BellReadAll, AssignRequest,
     RejectRequest, Op
<1> QED BY <1>1, <1>2, <1>3, RequestOps DEF Sound

LEMMA ComplaintsPageSound == Sound(ComplaintsPage, AdminNames, AdminKeys)
<1>1. Reads(ComplaintsPage) \subseteq AdminKeys /\ School \notin ComplaintsPage.polls
  BY DEF Reads, ComplaintsPage, Paginated, Page, EntityMap, ManageDialog, Dialog,
     AdminKeys, School
<1>2. OpsOf(ComplaintsPage) \subseteq {UpdateComplaint}
  BY DEF OpsOf, ComplaintsPage, Paginated, Page, EntityMap, ManageDialog, Dialog
<1>3. Parted(ComplaintsPage)
  BY DEF Parted, ComplaintsPage, Paginated, Page, EntityMap, ManageDialog, Dialog,
     NotificationBell, BellRead, BellReadAll, UpdateComplaint, Op
<1> QED BY <1>1, <1>2, <1>3, ComplaintOps DEF Sound

LEMMA FeedbackPageSound == Sound(FeedbackPage, AdminNames, AdminKeys)
<1>1. Reads(FeedbackPage) \subseteq AdminKeys /\ School \notin FeedbackPage.polls
  BY DEF Reads, FeedbackPage, Paginated, Page, EntityMap, ReviewFeedback, Dialog,
     AdminKeys, School
<1>2. OpsOf(FeedbackPage) \subseteq {ReviewOfFeedback}
  BY DEF OpsOf, FeedbackPage, Paginated, Page, EntityMap, ReviewFeedback, Dialog
<1>3. Parted(FeedbackPage)
  BY DEF Parted, FeedbackPage, Paginated, Page, EntityMap, ReviewFeedback, Dialog,
     NotificationBell, BellRead, BellReadAll, ReviewOfFeedback, Op
<1> QED BY <1>1, <1>2, <1>3, FeedbackOps DEF Sound

LEMMA AlertsPageSound == Sound(AlertsPage, AdminNames, AdminKeys)
<1>1. Reads(AlertsPage) \subseteq AdminKeys /\ School \notin AlertsPage.polls
  BY DEF Reads, AlertsPage, Paginated, Page, AdminKeys, School
<1>2. OpsOf(AlertsPage) \subseteq {Acknowledge, Resolve}
  BY DEF OpsOf, AlertsPage, Paginated, Page
<1>3. Parted(AlertsPage)
  BY DEF Parted, AlertsPage, Paginated, Page
<1> QED BY <1>1, <1>2, <1>3, AlertOps DEF Sound

LEMMA FeesTabSound == Sound(FeesTab, AdminNames, AdminKeys)
<1>1. Reads(FeesTab) \subseteq AdminKeys /\ School \notin FeesTab.polls
  BY DEF Reads, FeesTab, Page, AddFeeDialog, FeeCard, Dialog, AdminKeys, AllRoutes,
     School
<1>2. OpsOf(FeesTab) \subseteq {AddFee, GenerateInvoices, ToggleFee}
  BY DEF OpsOf, FeesTab, Page, AddFeeDialog, FeeCard, Dialog
<1>3. Parted(FeesTab)
  BY DEF Parted, FeesTab, Page, AddFeeDialog, FeeCard, Dialog, NotificationBell,
     BellRead, BellReadAll, AddFee, GenerateInvoices, ToggleFee, Op
<1> QED BY <1>1, <1>2, <1>3, FeeOps, InvoiceOps DEF Sound

LEMMA InvoicesTabSound == Sound(InvoicesTab, AdminNames, AdminKeys)
<1>1. Reads(InvoicesTab) \subseteq AdminKeys /\ School \notin InvoicesTab.polls
  BY DEF Reads, InvoicesTab, Paginated, Page, EntityMap, RecordPaymentDialog, Dialog,
     AdminKeys, School
<1>2. OpsOf(InvoicesTab) \subseteq {RecordPayment}
  BY DEF OpsOf, InvoicesTab, Paginated, Page, EntityMap, RecordPaymentDialog, Dialog
<1>3. Parted(InvoicesTab)
  BY DEF Parted, InvoicesTab, Paginated, Page, EntityMap, RecordPaymentDialog, Dialog,
     NotificationBell, BellRead, BellReadAll, RecordPayment, Op
<1> QED BY <1>1, <1>2, <1>3, InvoiceOps DEF Sound

LEMMA RoutesListPageSound == Sound(RoutesListPage, AdminNames, AdminKeys)
<1>1. /\ RoutesListPage.reads = {AllRoutes, VehicleNames, DriverNames}
      /\ RoutesListPage.polls = {} /\ RoutesListPage.ops = {}
      /\ RoutesListPage.dialogs = {CreateRouteDialog, ConfirmDialog(DeleteRoute)}
  BY DEF RoutesListPage, Page
<1>2. /\ CreateRouteDialog.ops = {CreateRoute}
      /\ CreateRouteDialog.reads = {VehicleNames, DriverNames}
  BY DEF CreateRouteDialog, Dialog
<1>3. /\ ConfirmDialog(DeleteRoute).ops = {DeleteRoute}
      /\ ConfirmDialog(DeleteRoute).reads = {} /\ ConfirmDialog(DeleteRoute).held
  BY DEF ConfirmDialog, Dialog
<1>4. Reads(RoutesListPage) \subseteq AdminKeys /\ School \notin RoutesListPage.polls
  BY <1>1, <1>2, <1>3 DEF Reads, AdminKeys
<1>5. OpsOf(RoutesListPage) = {CreateRoute, DeleteRoute}
  BY <1>1, <1>2, <1>3 DEF OpsOf
<1>6. CreateRoute.goesTo = {"route"}
  BY DEF CreateRoute, Op
<1>7. {CreateRoute, DeleteRoute} \cap NotificationBell.ops = {}
  BY DEF CreateRoute, DeleteRoute, NotificationBell, Page, BellRead, BellReadAll, Op
<1>8. Parted(RoutesListPage)
  BY <1>1, <1>2, <1>3, <1>6, <1>7 DEF Parted
<1> QED BY <1>4, <1>5, <1>8, RouteOps, DeleteRouteFine DEF Sound

LEMMA RouteEditorPageSound == Sound(RouteEditorPage, AdminNames, AdminKeys)
<1>1. Reads(RouteEditorPage) \subseteq AdminKeys /\ School \notin RouteEditorPage.polls
  BY DEF Reads, RouteEditorPage, Page, AdminKeys, VehicleNames, DriverNames, School
<1>2. OpsOf(RouteEditorPage) \subseteq {}
  BY DEF OpsOf, RouteEditorPage, Page
<1>3. Parted(RouteEditorPage)
  BY DEF Parted, RouteEditorPage, Page
<1> QED BY <1>1, <1>2, <1>3 DEF Sound

LEMMA SettingsPageSound == Sound(SettingsPage, AdminNames, AdminKeys)
<1>1. Reads(SettingsPage) \subseteq AdminKeys /\ School \notin SettingsPage.polls
  BY DEF Reads, SettingsPage, Page, ConfirmDialog, Dialog, AdminKeys, School
<1>2. OpsOf(SettingsPage) \subseteq {SaveProfile, SaveSetting, RegenerateCode}
  BY DEF OpsOf, SettingsPage, Page, ConfirmDialog, Dialog
<1>3. Parted(SettingsPage)
  <2>1. /\ SettingsPage.dialogs = {ConfirmDialog(RegenerateCode)}
        /\ SettingsPage.ops = {SaveProfile, SaveSetting}
    BY DEF SettingsPage, Page
  <2>2. ConfirmDialog(RegenerateCode).ops = {RegenerateCode} /\ ConfirmDialog(RegenerateCode).held
    BY DEF ConfirmDialog, Dialog
  <2>3. RegenerateCode \notin {SaveProfile, SaveSetting} \cup NotificationBell.ops
    BY DEF RegenerateCode, SaveProfile, SaveSetting, NotificationBell, Page, BellRead,
           BellReadAll, Op
  <2> QED BY <2>1, <2>2, <2>3 DEF Parted
<1> QED BY <1>1, <1>2, <1>3, SchoolOps DEF Sound

LEMMA SetupWizardSound == Sound(SetupWizard, AdminNames, AdminKeys)
<1>1. Reads(SetupWizard) \subseteq AdminKeys /\ School \notin SetupWizard.polls
  BY DEF Reads, SetupWizard, Page, AdminKeys, School
<1>2. OpsOf(SetupWizard) \subseteq {SetupProfile, SetupVehicle, SetupRoute}
  BY DEF OpsOf, SetupWizard, Page
<1>3. Parted(SetupWizard)
  BY DEF Parted, SetupWizard, Page
<1> QED BY <1>1, <1>2, <1>3, SchoolOps, VehicleOps, RouteOps DEF Sound

LEMMA AdminDashboardSound == Sound(AdminDashboard, AdminNames, AdminKeys)
<1>1. Reads(AdminDashboard) \subseteq AdminKeys /\ School \notin AdminDashboard.polls
  BY DEF Reads, AdminDashboard, Page, AdminKeys, School
<1>2. OpsOf(AdminDashboard) \subseteq {}
  BY DEF OpsOf, AdminDashboard, Page
<1>3. Parted(AdminDashboard)
  BY DEF Parted, AdminDashboard, Page
<1> QED BY <1>1, <1>2, <1>3 DEF Sound

LEMMA FleetMapPageSound == Sound(FleetMapPage, AdminNames, AdminKeys)
<1>1. Reads(FleetMapPage) \subseteq AdminKeys /\ School \notin FleetMapPage.polls
  BY DEF Reads, FleetMapPage, Page, TripListCard, AdminKeys, School
<1>2. OpsOf(FleetMapPage) \subseteq {}
  BY DEF OpsOf, FleetMapPage, Page, TripListCard
<1>3. Parted(FleetMapPage)
  BY DEF Parted, FleetMapPage, Page, TripListCard
<1> QED BY <1>1, <1>2, <1>3 DEF Sound

LEMMA SuperDashboardSound == Sound(SuperDashboard, SuperNames, SuperKeys)
<1>1. Reads(SuperDashboard) \subseteq SuperKeys /\ School \notin SuperDashboard.polls
  BY DEF Reads, SuperDashboard, Paginated, Page, AddSchoolForm, Dialog, SuperKeys,
     Platform, School
<1>2. OpsOf(SuperDashboard) \subseteq {CreateSchool}
  BY DEF OpsOf, SuperDashboard, Paginated, Page, AddSchoolForm, Dialog
<1>3. Parted(SuperDashboard)
  BY DEF Parted, SuperDashboard, Paginated, Page, AddSchoolForm, Dialog,
     NotificationBell, BellRead, BellReadAll, CreateSchool, Op
<1> QED BY <1>1, <1>2, <1>3, CreateSchoolFine DEF Sound

LEMMA SuperPeoplePageSound == Sound(SuperPeoplePage, SuperNames, SuperKeys)
<1>1. Reads(SuperPeoplePage) \subseteq SuperKeys /\ School \notin SuperPeoplePage.polls
  BY DEF Reads, SuperPeoplePage, Paginated, Page, AddStaffDialog, ResetPasswordForm,
     StaffRowMenu, EditUserForm, DeactivateDialog, ConfirmDialog, Dialog, StaffControls,
     SuperKeys, SchoolNames, School
<1>2. OpsOf(SuperPeoplePage) \subseteq StaffControls \cup {ResetPassword}
  BY DEF OpsOf, SuperPeoplePage, Paginated, Page, AddStaffDialog, ResetPasswordForm,
     StaffRowMenu, EditUserForm, DeactivateDialog, ConfirmDialog, Dialog, StaffControls
<1>3. Parted(SuperPeoplePage)
  BY DEF Parted, SuperPeoplePage, Paginated, Page, AddStaffDialog, ResetPasswordForm,
     StaffRowMenu, EditUserForm, DeactivateDialog, ConfirmDialog, Dialog, StaffControls,
     NotificationBell, BellRead, BellReadAll, AddStaff, UpdateUser, ActivateUser,
     Deactivate, ResetPassword, Op
<1> QED BY <1>1, <1>2, <1>3, SuperStaffOps DEF Sound

LEMMA SchoolDetailPageSound == Sound(SchoolDetailPage, SuperNames, SuperKeys)
<1>1. Reads(SchoolDetailPage) \subseteq SuperKeys /\ School \notin SchoolDetailPage.polls
  BY DEF Reads, SchoolDetailPage, Page, SuperKeys, School
<1>2. OpsOf(SchoolDetailPage) \subseteq {}
  BY DEF OpsOf, SchoolDetailPage, Page
<1>3. Parted(SchoolDetailPage)
  BY DEF Parted, SchoolDetailPage, Page
<1> QED BY <1>1, <1>2, <1>3 DEF Sound

LEMMA SuperBillingPageSound == Sound(SuperBillingPage, SuperNames, SuperKeys)
<1>1. Reads(SuperBillingPage) \subseteq SuperKeys /\ School \notin SuperBillingPage.polls
  BY DEF Reads, SuperBillingPage, Paginated, Page, GenerateDialog, RecordDialog, Dialog,
     SuperKeys, SchoolNames, School
<1>2. OpsOf(SuperBillingPage) \subseteq {GeneratePlatform, RecordPlatform}
  BY DEF OpsOf, SuperBillingPage, Paginated, Page, GenerateDialog, RecordDialog, Dialog
<1>3. Parted(SuperBillingPage)
  BY DEF Parted, SuperBillingPage, Paginated, Page, GenerateDialog, RecordDialog,
     Dialog, NotificationBell, BellRead, BellReadAll, GeneratePlatform, RecordPlatform,
     Op
<1> QED BY <1>1, <1>2, <1>3, PlatformOps DEF Sound

LEMMA DashboardPageSound == Sound(DashboardPage, ParentNames, ParentKeys)
<1>1. Reads(DashboardPage) \subseteq ParentKeys /\ School \notin DashboardPage.polls
  BY DEF Reads, DashboardPage, Page, ChildTripCard, AddChildDialog, ComplaintDialog,
     RateTripDialog, Dialog, ParentKeys, MyChildren, School
<1>2. OpsOf(DashboardPage) \subseteq {AddChild, Complain, Rate, MarkAbsent}
  BY DEF OpsOf, DashboardPage, Page, ChildTripCard, AddChildDialog, ComplaintDialog,
     RateTripDialog, Dialog
<1>3. Parted(DashboardPage)
  BY DEF Parted, DashboardPage, Page, ChildTripCard, AddChildDialog, ComplaintDialog,
     RateTripDialog, Dialog, NotificationBell, BellRead, BellReadAll, AddChild,
     Complain, Rate, MarkAbsent, Op
<1> QED BY <1>1, <1>2, <1>3, ParentOps, OtherParentOps DEF Sound

LEMMA ParentRequestsPageSound == Sound(ParentRequestsPage, ParentNames, ParentKeys)
<1>1. Reads(ParentRequestsPage) \subseteq ParentKeys /\ School \notin ParentRequestsPage.polls
  BY DEF Reads, ParentRequestsPage, Page, ParentKeys, MyChildren, School
<1>2. OpsOf(ParentRequestsPage) \subseteq {}
  BY DEF OpsOf, ParentRequestsPage, Page
<1>3. Parted(ParentRequestsPage)
  BY DEF Parted, ParentRequestsPage, Page
<1> QED BY <1>1, <1>2, <1>3 DEF Sound

LEMMA RequestTransportPageSound == Sound(RequestTransportPage, ParentNames, ParentKeys)
<1>1. Reads(RequestTransportPage) \subseteq ParentKeys /\ School \notin RequestTransportPage.polls
  BY DEF Reads, RequestTransportPage, Page, ParentKeys, MyChildren, School
<1>2. OpsOf(RequestTransportPage) \subseteq {RequestTransport}
  BY DEF OpsOf, RequestTransportPage, Page
<1>3. Parted(RequestTransportPage)
  BY DEF Parted, RequestTransportPage, Page
<1> QED BY <1>1, <1>2, <1>3, ParentOps DEF Sound

LEMMA NotificationsPageSound == Sound(NotificationsPage, ParentNames, ParentKeys)
<1>1. Reads(NotificationsPage) \subseteq ParentKeys /\ School \notin NotificationsPage.polls
  BY DEF Reads, NotificationsPage, Paginated, Page, ParentKeys, School
<1>2. OpsOf(NotificationsPage) \subseteq {MarkRead, MarkAllRead}
  BY DEF OpsOf, NotificationsPage, Paginated, Page
<1>3. Parted(NotificationsPage)
  BY DEF Parted, NotificationsPage, Paginated, Page
<1> QED BY <1>1, <1>2, <1>3, ParentOps DEF Sound

LEMMA LiveTrackPageSound == Sound(LiveTrackPage, ParentNames, ParentKeys)
<1>1. Reads(LiveTrackPage) \subseteq ParentKeys /\ School \notin LiveTrackPage.polls
  BY DEF Reads, LiveTrackPage, Page, ParentKeys, School
<1>2. OpsOf(LiveTrackPage) \subseteq {}
  BY DEF OpsOf, LiveTrackPage, Page
<1>3. Parted(LiveTrackPage)
  BY DEF Parted, LiveTrackPage, Page
<1> QED BY <1>1, <1>2, <1>3 DEF Sound

LEMMA InvoicesPageSound == Sound(InvoicesPage, ParentNames, ParentKeys)
<1>1. Reads(InvoicesPage) \subseteq ParentKeys /\ School \notin InvoicesPage.polls
  BY DEF Reads, InvoicesPage, Page, ParentKeys, MyChildren, School
<1>2. OpsOf(InvoicesPage) \subseteq {}
  BY DEF OpsOf, InvoicesPage, Page
<1>3. Parted(InvoicesPage)
  BY DEF Parted, InvoicesPage, Page
<1> QED BY <1>1, <1>2, <1>3 DEF Sound

LEMMA ParentSettingsPageSound == Sound(ParentSettingsPage, ParentNames, ParentKeys)
<1>1. Reads(ParentSettingsPage) \subseteq ParentKeys /\ School \notin ParentSettingsPage.polls
  BY DEF Reads, ParentSettingsPage, Page, ParentKeys, School
<1>2. OpsOf(ParentSettingsPage) \subseteq {SavePreference}
  BY DEF OpsOf, ParentSettingsPage, Page
<1>3. Parted(ParentSettingsPage)
  BY DEF Parted, ParentSettingsPage, Page
<1> QED BY <1>1, <1>2, <1>3, OtherParentOps DEF Sound

-----------------------------------------------------------------------------
(* Portals *)

LEMMA AdminPages ==
  \A n \in DOMAIN adminRoutes : Sound(adminRoutes[n], AdminNames, AdminKeys)
<1>1. DOMAIN adminRoutes =
        {"home", "setup", "vehicles", "drivers", "users", "settings", "fleet", "alerts",
         "requests", "routes", "route", "feedback", "complaints", "fees", "invoices"}
  BY DEF adminRoutes
<1>2. /\ adminRoutes["home"] = AdminDashboard /\ adminRoutes["setup"] = SetupWizard
      /\ adminRoutes["vehicles"] = VehiclesPage /\ adminRoutes["drivers"] = DriversPage
      /\ adminRoutes["users"] = PeoplePage /\ adminRoutes["settings"] = SettingsPage
      /\ adminRoutes["fleet"] = FleetMapPage /\ adminRoutes["alerts"] = AlertsPage
      /\ adminRoutes["requests"] = RequestsPage /\ adminRoutes["routes"] = RoutesListPage
      /\ adminRoutes["route"] = RouteEditorPage /\ adminRoutes["feedback"] = FeedbackPage
      /\ adminRoutes["complaints"] = ComplaintsPage /\ adminRoutes["fees"] = FeesTab
      /\ adminRoutes["invoices"] = InvoicesTab
  BY DEF adminRoutes, BillingPage
<1> QED
  BY <1>1, <1>2, AdminDashboardSound, SetupWizardSound, VehiclesPageSound,
     DriversPageSound, PeoplePageSound, SettingsPageSound, FleetMapPageSound,
     AlertsPageSound, RequestsPageSound, RoutesListPageSound, RouteEditorPageSound,
     FeedbackPageSound, ComplaintsPageSound, FeesTabSound, InvoicesTabSound

LEMMA SuperPages ==
  \A n \in DOMAIN superRoutes : Sound(superRoutes[n], SuperNames, SuperKeys)
<1>1. DOMAIN superRoutes = {"home", "users", "school", "billing"}
  BY DEF superRoutes
<1>2. /\ superRoutes["home"] = SuperDashboard /\ superRoutes["users"] = SuperPeoplePage
      /\ superRoutes["school"] = SchoolDetailPage
      /\ superRoutes["billing"] = SuperBillingPage
  BY DEF superRoutes
<1> QED BY <1>1, <1>2, SuperDashboardSound, SuperPeoplePageSound, SchoolDetailPageSound,
           SuperBillingPageSound

LEMMA ParentPages ==
  \A n \in DOMAIN parentRoutes : Sound(parentRoutes[n], ParentNames, ParentKeys)
<1>1. DOMAIN parentRoutes =
        {"home", "requests", "request", "notifications", "track", "invoices", "settings"}
  BY DEF parentRoutes
<1>2. /\ parentRoutes["home"] = DashboardPage
      /\ parentRoutes["requests"] = ParentRequestsPage
      /\ parentRoutes["request"] = RequestTransportPage
      /\ parentRoutes["notifications"] = NotificationsPage
      /\ parentRoutes["track"] = LiveTrackPage /\ parentRoutes["invoices"] = InvoicesPage
      /\ parentRoutes["settings"] = ParentSettingsPage
  BY DEF parentRoutes
<1> QED BY <1>1, <1>2, DashboardPageSound, ParentRequestsPageSound,
           RequestTransportPageSound, NotificationsPageSound, LiveTrackPageSound,
           InvoicesPageSound, ParentSettingsPageSound

LEMMA Tables ==
  ASSUME NEW w \in DOMAIN Portals
  PROVE  /\ \A n \in DOMAIN Portals[w] :
              Sound(Portals[w][n], DOMAIN Portals[w], Keys[w])
         /\ \A op \in NotificationBell.ops : Fine(op, DOMAIN Portals[w], Keys[w])
         /\ Bell \in Keys[w]
<1>1. DOMAIN Portals = {"admin", "super", "parent"}
  BY DEF Portals
<1>2. /\ Portals["admin"] = adminRoutes /\ Portals["super"] = superRoutes
      /\ Portals["parent"] = parentRoutes
  BY DEF Portals
<1>3. /\ Keys["admin"] = AdminKeys /\ Keys["super"] = SuperKeys
      /\ Keys["parent"] = ParentKeys
  BY DEF Keys
<1>4. Bell \in AdminKeys /\ Bell \in SuperKeys /\ Bell \in ParentKeys
  BY DEF AdminKeys, SuperKeys, ParentKeys
<1> QED BY <1>1, <1>2, <1>3, <1>4, AdminPages, SuperPages, ParentPages, BellOps
        DEF AdminNames, SuperNames, ParentNames

LEMMA SomethingShown ==
  ASSUME NEW w \in DOMAIN Portals, NEW q \in Keys[w] PROVE Shows(q) # {}
<1>1. \A a \in DOMAIN Shown : Shown[a] # {}
  BY Heads, Rows DEF Everything
<1>2. DOMAIN Portals = {"admin", "super", "parent"}
  BY DEF Portals
<1>3. /\ Keys["admin"] = AdminKeys /\ Keys["super"] = SuperKeys
      /\ Keys["parent"] = ParentKeys
  BY DEF Keys
<1>4. \A k \in AdminKeys : Shows(k) # {}
  BY <1>1, AdminKey
<1>5. \A k \in SuperKeys : Shows(k) # {}
  BY <1>1, SuperKey, Heads DEF Overviews
<1>6. \A k \in ParentKeys : Shows(k) # {}
  BY <1>1, ParentKey, Heads
<1> QED BY <1>2, <1>3, <1>4, <1>5, <1>6

\* What the machine needs of the tables
LEMMA PortalFacts ==
  ASSUME portal \in DOMAIN Portals, watched \in Queries(portal)
  PROVE  /\ Shows(watched) # {}
         /\ \A op \in Operations :
              /\ op.goesTo \subseteq DOMAIN Portals[portal]
              /\ watched \in op.sets =>
                   watched \notin Followed /\ ~IsPrefix(<<"notifications">>, watched)
              /\ Affects(op) /\ <<op.does, watched>> \notin Gaps =>
                   watched \in op.sets \/ Matches(op.invalidates)
         /\ \A n \in DOMAIN Portals[portal] : Parted(Portals[portal][n])
<1>1. watched \in Keys[portal]
  <2>1. CASE watched = Bell
    BY <2>1, Tables
  <2>2. CASE watched # Bell
    BY <2>2, Tables DEF Queries, Sound, Reads
  <2> QED BY <2>1, <2>2
<1>2. \A op \in Operations : Fine(op, DOMAIN Portals[portal], Keys[portal])
  BY Tables DEF Operations, Sound, OpsOf
<1>3. School \notin Followed
  <2>1. School # Bell
    BY DEF School, Bell
  <2> QED BY <2>1, Tables DEF Followed, Sound
<1>4. ~IsPrefix(<<"notifications">>, School)
  BY PrefixOfTwo DEF School
<1>5. \A n \in DOMAIN Portals[portal] : Parted(Portals[portal][n])
  BY Tables DEF Sound
<1>6. Shows(watched) # {}
  BY <1>1, SomethingShown
<1> QED BY <1>1, <1>2, <1>3, <1>4, <1>5, <1>6 DEF Fine, Told, Affects, Matches

-----------------------------------------------------------------------------
(* Type correctness: the parts of TypeOK, and that there is room to accept *)
(* whatever is in flight                                                   *)

Entries(n) ==
  [at : {"idle", "sent", "replied"}, got : 0..n, ok : BOOLEAN, has : BOOLEAN,
   data : 0..n, error : BOOLEAN, invalid : BOOLEAN]
Calls(n) ==
  {NoCall} \cup [at : {"sent", "ok", "error"}, op : Operations, version : 0..n,
                 from : {"dialog", "page", "gone"}]

Control ==
  /\ portal \in DOMAIN Portals /\ watched \in Queries(portal)
  /\ clock \in 0..MaxWrites /\ losses \in 0..MaxLosses /\ event \in BOOLEAN
Screen ==
  /\ page \in DOMAIN Portals[portal] /\ here \in BOOLEAN
  /\ dialog = [at |-> dialog.at, is |-> dialog.is]
  /\ dialog = NoDialog \/ (dialog.at \in {"open", "busy", "shown"} /\ dialog.is \in Here.dialogs)
Cached == entry \in Entries(clock)
Calling == calls \in [Slots -> Calls(clock)]
Owned == own \in 0..clock
Waiting == {s \in Slots : calls[s].at = "sent" /\ Affects(calls[s].op)}
Accounted == clock + Cardinality(Waiting) <= MaxWrites
TInv == Control /\ Screen /\ Cached /\ Calling /\ Owned /\ Accounted

LEMMA TInvImpliesTypeOK == TInv => TypeOK
<1>1. SUFFICES ASSUME TInv PROVE TypeOK
  OBVIOUS
<1>2. clock \in Nat /\ clock <= MaxWrites /\ MaxWrites \in Nat
  BY <1>1, BoundsAssumption DEF TInv, Control
<1>3. /\ entry \in [at : {"idle", "sent", "replied"}, got : 0..MaxWrites, ok : BOOLEAN,
                    has : BOOLEAN, data : 0..MaxWrites, error : BOOLEAN, invalid : BOOLEAN]
      /\ entry.data <= clock
  BY <1>1, <1>2 DEF TInv, Cached, Entries
<1>4. \A s \in Slots :
        calls[s] = NoCall \/ (/\ calls[s].at \in {"sent", "ok", "error"}
                              /\ calls[s].op \in Operations
                              /\ calls[s].version \in 0..clock
                              /\ calls[s].from \in {"dialog", "page", "gone"})
  BY <1>1 DEF TInv, Calling, Calls
<1>5. own \in 0..MaxWrites /\ own <= clock
  BY <1>1, <1>2 DEF TInv, Owned
<1> QED BY <1>1, <1>3, <1>4, <1>5 DEF TInv, Control, Screen, TypeOK

LEMMA SlotsFinite == IsFiniteSet(Slots)
<1>1. 1 \in Int /\ MaxCalls \in Int
  BY BoundsAssumption
<1> QED BY <1>1, FS_Interval DEF Slots

LEMMA NoCallIs ==
  /\ NoCall.at = "none" /\ NoCall.from = "gone" /\ NoCall.version = 0
  /\ NoCall.op.goesTo = {} /\ NoCall.op.sets = {} /\ NoCall.op.changes = {}
  /\ NoCall.op.invalidates = {} /\ NoCall.op.does = "none"
  /\ [NoCall EXCEPT !.from = "gone"] = NoCall
BY DEF NoCall, Op

\* What fetching, mounting and invalidating do to an entry
LEMMA FetchedIs ==
  ASSUME NEW n \in Nat, NEW e \in Entries(n)
  PROVE  /\ Fetched(e) \in Entries(n) /\ Fetched(e).has = e.has
         /\ IF e.at # "idle" /\ ~e.has THEN Fetched(e) = e
            ELSE Fetched(e).at = "sent" /\ ~Fetched(e).ok
<1>1. CASE e.at # "idle" /\ ~e.has
  BY <1>1 DEF Fetched
<1>2. CASE ~(e.at # "idle" /\ ~e.has)
  <2> DEFINE f == [at |-> "sent", got |-> 0, ok |-> FALSE, has |-> e.has, data |-> e.data,
                   error |-> e.error /\ e.has, invalid |-> e.invalid]
  <2>1. Fetched(e) = f
    BY <1>2 DEF Fetched, Entries
  <2>2. (e.error /\ e.has) \in BOOLEAN /\ e.has \in BOOLEAN /\ e.invalid \in BOOLEAN
    BY DEF Entries
  <2>3. f \in Entries(n)
    BY <2>2 DEF Entries
  <2> QED BY <1>2, <2>1, <2>3
<1> QED BY <1>1, <1>2

LEMMA MountsAre ==
  ASSUME NEW n \in Nat, NEW e \in Entries(n), NEW f \in Mounts(e)
  PROVE  /\ f \in Entries(n) /\ f.has = e.has
         /\ \/ f = e /\ (e.at = "idle" => e.has /\ ~e.invalid)
            \/ e.at = "idle" /\ f.at = "sent" /\ ~f.ok
BY FetchedIs DEF Mounts, Entries

LEMMA InvalidatedIs ==
  ASSUME NEW n \in Nat, NEW e \in Entries(n)
  PROVE  /\ Invalidated(e) \in Entries(n) /\ Invalidated(e).has = e.has
         /\ Mounted => IF e.at # "idle" /\ ~e.has
                       THEN Invalidated(e) = [e EXCEPT !.invalid = TRUE]
                       ELSE Invalidated(e).at = "sent" /\ ~Invalidated(e).ok
         /\ ~Mounted => Invalidated(e) = [e EXCEPT !.invalid = Known(e)]
<1>1. CASE Mounted
  <2> DEFINE f == [e EXCEPT !.invalid = TRUE]
  <2>1. f \in Entries(n) /\ f.at = e.at /\ f.has = e.has
    BY DEF Entries
  <2>2. Invalidated(e) = Fetched(f)
    BY <1>1 DEF Invalidated
  <2> HIDE DEF f
  <2>3. /\ Fetched(f) \in Entries(n) /\ Fetched(f).has = f.has
        /\ IF f.at # "idle" /\ ~f.has THEN Fetched(f) = f
           ELSE Fetched(f).at = "sent" /\ ~Fetched(f).ok
    BY <2>1, FetchedIs
  <2> QED BY <1>1, <2>1, <2>2, <2>3 DEF f
<1>2. CASE ~Mounted
  <2>1. Invalidated(e) = [e EXCEPT !.invalid = Known(e)]
    BY <1>2 DEF Invalidated
  <2>2. Known(e) \in BOOLEAN
    BY DEF Known, Entries
  <2>3. [e EXCEPT !.invalid = Known(e)] \in Entries(n)
    BY <2>2 DEF Entries
  <2>4. [e EXCEPT !.invalid = Known(e)].has = e.has
    BY DEF Entries
  <2> QED BY <1>2, <2>1, <2>3, <2>4
<1> QED BY <1>1, <1>2

\* Calls that are left behind
LEMMA OrphanedAre ==
  ASSUME NEW n \in Nat, NEW cs \in [Slots -> Calls(n)]
  PROVE  /\ Orphaned(cs) \in [Slots -> Calls(n)]
         /\ \A s \in Slots :
              /\ Orphaned(cs)[s].from = "gone"
              /\ \/ Orphaned(cs)[s] = NoCall
                 \/ /\ Orphaned(cs)[s].at = cs[s].at /\ Orphaned(cs)[s].op = cs[s].op
                    /\ Orphaned(cs)[s].version = cs[s].version
<1>1. ASSUME NEW s \in Slots
      PROVE  /\ [cs[s] EXCEPT !.from = "gone"] \in Calls(n)
             /\ [cs[s] EXCEPT !.from = "gone"].from = "gone"
             /\ [cs[s] EXCEPT !.from = "gone"].at = cs[s].at
             /\ [cs[s] EXCEPT !.from = "gone"].op = cs[s].op
             /\ [cs[s] EXCEPT !.from = "gone"].version = cs[s].version
  <2>1. CASE cs[s] = NoCall
    BY <2>1, NoCallIs DEF Calls
  <2>2. CASE cs[s] # NoCall
    BY <2>2 DEF Calls
  <2> QED BY <2>1, <2>2
<1>2. NoCall \in Calls(n) /\ NoCall.from = "gone"
  BY NoCallIs DEF Calls
<1> QED BY <1>1, <1>2 DEF Orphaned

LEMMA UndialoguedAre ==
  ASSUME NEW n \in Nat, NEW cs \in [Slots -> Calls(n)]
  PROVE  /\ Undialogued(cs) \in [Slots -> Calls(n)]
         /\ \A s \in Slots :
              /\ Undialogued(cs)[s].at = cs[s].at /\ Undialogued(cs)[s].op = cs[s].op
              /\ Undialogued(cs)[s].version = cs[s].version
              /\ Undialogued(cs)[s].from =
                   IF cs[s].from = "dialog" THEN "page" ELSE cs[s].from
<1>1. ASSUME NEW s \in Slots
      PROVE  LET c == [cs[s] EXCEPT !.from = IF @ = "dialog" THEN "page" ELSE @]
             IN /\ c \in Calls(n) /\ c.at = cs[s].at /\ c.op = cs[s].op
                /\ c.version = cs[s].version
                /\ c.from = IF cs[s].from = "dialog" THEN "page" ELSE cs[s].from
  <2>1. CASE cs[s] = NoCall
    <3>1. [NoCall EXCEPT !.from = IF @ = "dialog" THEN "page" ELSE @] = NoCall
      BY DEF NoCall
    <3> QED BY <2>1, <3>1, NoCallIs DEF Calls
  <2>2. CASE cs[s] # NoCall
    BY <2>2 DEF Calls
  <2> QED BY <2>1, <2>2
<1> QED BY <1>1 DEF Undialogued

-----------------------------------------------------------------------------
(* Steps, by what they do to the screen *)

LEMMA NoDialogIs ==
  /\ NoDialog.at = "closed" /\ NoDialog.is.ops = {} /\ NoDialog.is.reads = {}
  /\ NoDialog = [at |-> NoDialog.at, is |-> NoDialog.is] /\ ~NoDialog.is.row
BY DEF NoDialog, Dialog

LEMMA SamePortal ==
  ASSUME portal' = portal, watched' = watched
  PROVE  /\ Operations' = Operations /\ Followed' = Followed
         /\ \A op : Affects(op)' <=> Affects(op)
         /\ \A n : Calls(n)' = Calls(n)
BY DEF Operations, Followed, Affects, Calls

LEMMA SameScreen ==
  ASSUME Screen, UNCHANGED <<portal, page, here, dialog>> PROVE Screen'
BY DEF Screen, Here

LEMMA NewPage ==
  ASSUME Screen, portal' = portal, NEW n \in DOMAIN Portals[portal], Goes(n)
  PROVE  Screen'
BY NoDialogIs DEF Screen, Goes

\* The dialog of the page that is open changes.
LEMMA NewDialog ==
  ASSUME Screen, UNCHANGED <<portal, page, here>>,
         \/ dialog' = dialog \/ dialog' = NoDialog
         \/ \E at \in {"open", "busy", "shown"}, d \in Here.dialogs :
              dialog' = [at |-> at, is |-> d]
  PROVE  Screen'
<1>1. /\ dialog' = [at |-> dialog'.at, is |-> dialog'.is]
      /\ \/ dialog' = NoDialog
         \/ dialog'.at \in {"open", "busy", "shown"} /\ dialog'.is \in Here.dialogs
  BY NoDialogIs DEF Screen
<1>2. Here' = Here
  BY DEF Here
<1> QED BY <1>1, <1>2 DEF Screen

LEMMA AnsweredIs ==
  ASSUME Screen, NEW s, NEW at
  PROVE  \/ Answered(s, at) = dialog \/ Answered(s, at) = NoDialog
         \/ /\ calls[s].op \in dialog.is.ops /\ dialog.is \in Here.dialogs
            /\ \E x \in {"open", "shown"} : Answered(s, at) = [at |-> x, is |-> dialog.is]
<1>1. ASSUME calls[s].op \in dialog.is.ops
      PROVE  /\ dialog.is \in Here.dialogs
             /\ \A x : [dialog EXCEPT !.at = x] = [at |-> x, is |-> dialog.is]
  BY <1>1, NoDialogIs DEF Screen
<1> QED BY <1>1 DEF Answered

LEMMA PlacesArePages == Places \subseteq DOMAIN Portals[portal]
<1> DEFINE P == Portals[portal]
           C == {n \in DOMAIN P : Concerned(P[n])}
<1>1. C \subseteq DOMAIN P
  OBVIOUS
<1>2. C # DOMAIN P => (CHOOSE n \in DOMAIN P : n \notin C) \in DOMAIN P
  BY <1>1
<1>3. Places = C \cup (IF C = DOMAIN P THEN {} ELSE {CHOOSE n \in DOMAIN P : n \notin C})
  BY DEF Places
<1> HIDE DEF C, P
<1>4. Places \subseteq DOMAIN P
  BY <1>1, <1>2, <1>3
<1> QED BY <1>4 DEF P

\* The operation of a call is one of the portal, or none.
LEMMA CalledIs ==
  ASSUME TInv, NEW s \in Slots
  PROVE  /\ calls[s] \in Calls(clock)
         /\ calls[s].at # "none" => calls[s].op \in Operations /\ calls[s] # NoCall
         /\ calls[s].op.goesTo \subseteq DOMAIN Portals[portal]
<1>1. calls[s] \in Calls(clock)
  BY DEF TInv, Calling
<1>2. calls[s].at # "none" => calls[s].op \in Operations /\ calls[s] # NoCall
  BY <1>1, NoCallIs DEF Calls
<1>3. calls[s] = NoCall \/ calls[s].op \in Operations
  BY <1>1 DEF Calls
<1> QED BY <1>1, <1>2, <1>3, NoCallIs, PortalFacts DEF TInv, Control

LEMMA ScreenStep == TInv /\ [Next]_vars => Screen'
<1> SUFFICES ASSUME TInv, [Next]_vars PROVE Screen'
  OBVIOUS
<1>0. Screen /\ portal \in DOMAIN Portals
  BY DEF TInv, Control
<1>1. CASE Open
  BY <1>0, <1>1, PlacesArePages, NewPage DEF Open
<1>2. CASE Filter
  <2>1. here' \in BOOLEAN /\ UNCHANGED <<portal, page, dialog>>
    BY <1>0, <1>2 DEF Filter, Screen
  <2> QED BY <1>0, <2>1 DEF Screen, Here
<1>3. CASE Retry
  BY <1>0, <1>3, SameScreen DEF Retry, view
<1>4. CASE OpenDialog
  BY <1>0, <1>4, NewDialog DEF OpenDialog
<1>5. CASE CloseDialog
  BY <1>0, <1>5, NewDialog DEF CloseDialog
<1>6. CASE Submit
  <2>1. dialog.at = "open" /\ dialog' = [dialog EXCEPT !.at = "busy"]
    BY <1>6 DEF Submit
  <2>2. dialog.is \in Here.dialogs /\ dialog' = [at |-> "busy", is |-> dialog.is]
    BY <1>0, <2>1, NoDialogIs DEF Screen
  <2> QED BY <1>0, <1>6, <2>2, NewDialog DEF Submit
<1>7. CASE Press
  BY <1>0, <1>7, SameScreen DEF Press, view
<1>8. CASE Poll
  BY <1>0, <1>8, SameScreen DEF Poll, view
<1>9. CASE ServeQuery
  BY <1>0, <1>9, SameScreen DEF ServeQuery, view
<1>10. CASE QuerySettles
  BY <1>0, <1>10, NewDialog DEF QuerySettles
<1>11. ASSUME NEW s \in Slots, Serve(s) PROVE Screen'
  BY <1>0, <1>11, SameScreen DEF Serve, view
<1>12. ASSUME NEW s \in Slots, Succeeds(s) PROVE Screen'
  <2>1. CASE calls[s].op.goesTo = {}
    <3>1. UNCHANGED <<portal, page, here>> /\ dialog' = Answered(s, "ok")
      BY <1>12, <2>1 DEF Succeeds
    <3> QED BY <1>0, <3>1, AnsweredIs, NewDialog
  <2>2. CASE calls[s].op.goesTo # {}
    <3>1. portal' = portal /\ \E n \in calls[s].op.goesTo : Goes(n)
      BY <1>12, <2>2 DEF Succeeds
    <3> QED BY <1>0, <3>1, CalledIs, NewPage
  <2> QED BY <2>1, <2>2
<1>13. ASSUME NEW s \in Slots, Fails(s) PROVE Screen'
  <2>1. UNCHANGED <<portal, page, here>> /\ dialog' = Answered(s, "error")
    BY <1>13 DEF Fails
  <2> QED BY <1>0, <2>1, AnsweredIs, NewDialog
<1>14. CASE Foreign
  BY <1>0, <1>14, SameScreen DEF Foreign, view
<1>15. CASE SocketBridge
  BY <1>0, <1>15, SameScreen DEF SocketBridge, view
<1>16. CASE UNCHANGED vars
  BY <1>0, <1>16, SameScreen DEF vars, view
<1> QED
  BY <1>1, <1>2, <1>3, <1>4, <1>5, <1>6, <1>7, <1>8, <1>9, <1>10, <1>11, <1>12, <1>13,
     <1>14, <1>15, <1>16 DEF Next

-----------------------------------------------------------------------------
(* Steps, by what they do to the calls *)

\* No call is new or served: those that are left are what they were, but perhaps of a
\* page or a dialog that is gone.
Left ==
  /\ calls' \in [Slots -> Calls(clock)] /\ clock' = clock
  /\ \A s \in Slots :
       \/ calls'[s] = NoCall
       \/ /\ calls'[s].at = calls[s].at /\ calls'[s].op = calls[s].op
          /\ calls'[s].version = calls[s].version

LEMMA SameCalls == ASSUME TInv, UNCHANGED <<clock, calls>> PROVE Left
BY DEF TInv, Calling, Left

\* The call of s ends, the others are what they were.
LEMMA CallEnds ==
  ASSUME TInv, NEW s \in Slots
  PROVE  /\ [calls EXCEPT ![s] = NoCall] \in [Slots -> Calls(clock)]
         /\ \A z \in Slots :
              [calls EXCEPT ![s] = NoCall][z] = IF z = s THEN NoCall ELSE calls[z]
<1>1. NoCall \in Calls(clock)
  BY DEF Calls
<1> QED BY <1>1 DEF TInv, Calling

\* A new call gets a free slot.
LEMMA SendsIs ==
  ASSUME TInv, NEW op \in Operations, NEW from \in {"dialog", "page"}, Sends(op, from)
  PROVE  \E s \in Slots :
           /\ calls[s].at = "none"
           /\ calls' = [z \in Slots |-> IF z = s
                                        THEN [at |-> "sent", op |-> op, version |-> 0,
                                              from |-> from]
                                        ELSE calls[z]]
           /\ calls' \in [Slots -> Calls(clock)]
           /\ Affects(op) => clock + Cardinality(Waiting) < MaxWrites
           /\ \A z \in Slots : calls[z].at # "none" => from = "page" /\ calls[z].from = "page"
<1>1. PICK s \in Slots :
        /\ calls[s].at = "none" /\ Room(op)
        /\ \A z \in Slots : calls[z].at # "none" => from = "page" /\ calls[z].from = "page"
        /\ calls' = [calls EXCEPT ![s] = [at |-> "sent", op |-> op, version |-> 0,
                                          from |-> from]]
  BY DEF Sends
<1>2. calls \in [Slots -> Calls(clock)] /\ clock \in Nat
  BY BoundsAssumption DEF TInv, Calling, Control
<1>3. [at |-> "sent", op |-> op, version |-> 0, from |-> from] \in Calls(clock)
  BY <1>2 DEF Calls
<1>4. calls' = [z \in Slots |-> IF z = s
                                THEN [at |-> "sent", op |-> op, version |-> 0,
                                      from |-> from]
                                ELSE calls[z]]
  BY <1>1, <1>2
<1>5. calls' \in [Slots -> Calls(clock)]
  BY <1>2, <1>3, <1>4
<1>6. Affects(op) => clock + Cardinality(Waiting) < MaxWrites
  BY <1>1 DEF Room, Waiting
<1> QED BY <1>1, <1>4, <1>5, <1>6

LEMMA CallRecord ==
  ASSUME NEW n, NEW c \in Calls(n), c # NoCall, NEW x, NEW v
  PROVE  /\ [c EXCEPT !.at = x] =
              [at |-> x, op |-> c.op, version |-> c.version, from |-> c.from]
         /\ [c EXCEPT !.version = v] =
              [at |-> c.at, op |-> c.op, version |-> v, from |-> c.from]
BY DEF Calls

\* An answer is on its way: what an accepted call is told, the clock had just reached.
LEMMA ServeIs ==
  ASSUME TInv, NEW s \in Slots, Serve(s)
  PROVE  \E at \in {"ok", "error"}, v \in 0..clock' :
           /\ calls' = [z \in Slots |-> IF z = s
                                        THEN [at |-> at, op |-> calls[s].op, version |-> v,
                                              from |-> calls[s].from]
                                        ELSE calls[z]]
           /\ calls' \in [Slots -> Calls(clock')]
           /\ clock' = clock \/ (Affects(calls[s].op) /\ clock' = clock + 1)
           /\ at = "ok" => v = clock'
<1>1. calls[s].at = "sent"
  BY DEF Serve
<1>2. /\ calls \in [Slots -> Calls(clock)] /\ clock \in Nat
      /\ calls[s] \in [at : {"sent", "ok", "error"}, op : Operations, version : 0..clock,
                       from : {"dialog", "page", "gone"}]
  BY <1>1, NoCallIs, BoundsAssumption DEF TInv, Calling, Control, Calls
<1>3. clock' = clock \/ (Affects(calls[s].op) /\ clock' = clock + 1)
  BY DEF Serve
<1>4. \E at \in {"ok", "error"}, v \in 0..clock' :
        /\ calls' = [calls EXCEPT ![s] = [at |-> at, op |-> calls[s].op, version |-> v,
                                          from |-> calls[s].from]]
        /\ at = "ok" => v = clock'
  <2> DEFINE Answer(at, v) == [at |-> at, op |-> calls[s].op, version |-> v,
                               from |-> calls[s].from]
  <2>1. /\ [calls[s] EXCEPT !.at = "ok", !.version = clock'] = Answer("ok", clock')
        /\ [calls[s] EXCEPT !.at = "error"] = Answer("error", calls[s].version)
    <3>1. calls[s] \in Calls(clock) /\ calls[s] # NoCall
      BY <1>1, <1>2, NoCallIs
    <3>2. [calls[s] EXCEPT !.at = "ok", !.version = clock'] = Answer("ok", clock')
      <4> DEFINE e == [calls[s] EXCEPT !.at = "ok"]
      <4>1. e = Answer("ok", calls[s].version)
        BY <3>1, CallRecord, Zenon
      <4>2. e \in Calls(clock) /\ e # NoCall
        BY <1>2, <4>1, NoCallIs DEF Calls
      <4>3. [calls[s] EXCEPT !.at = "ok", !.version = clock'] = [e EXCEPT !.version = clock']
        OBVIOUS
      <4>4. e.at = "ok" /\ e.op = calls[s].op /\ e.from = calls[s].from
        BY <4>1
      <4> HIDE DEF e
      <4>5. [e EXCEPT !.version = clock'] =
              [at |-> e.at, op |-> e.op, version |-> clock', from |-> e.from]
        BY <4>2, CallRecord, Zenon
      <4> QED BY <4>3, <4>4, <4>5
    <3>3. [calls[s] EXCEPT !.at = "error"] = Answer("error", calls[s].version)
      BY <3>1, CallRecord, Zenon
    <3> QED BY <3>2, <3>3
  <2>2. [calls EXCEPT ![s].at = "ok", ![s].version = clock'] =
          [calls EXCEPT ![s] = Answer("ok", clock')]
    BY <1>2, <2>1
  <2>3. [calls EXCEPT ![s].at = "error"] =
          [calls EXCEPT ![s] = Answer("error", calls[s].version)]
    BY <1>2, <2>1
  <2>4. calls[s].version \in 0..clock' /\ 0 \in 0..clock' /\ clock' \in 0..clock'
    BY <1>2, <1>3
  <2> HIDE DEF Answer
  <2>5. \/ calls' = [calls EXCEPT ![s] = Answer("error", calls[s].version)]
        \/ calls' = [calls EXCEPT ![s] = Answer("ok", clock')]
        \/ calls' = [calls EXCEPT ![s] = Answer("error", 0)]
    <3>1. CASE clock' = clock /\ Answers(s, "error", 0)
      BY <3>1, <2>2, <2>3 DEF Answers
    <3>2. CASE Answers(s, "ok", clock')
      <4>1. \/ calls' = [calls EXCEPT ![s].at = "ok", ![s].version = clock']
            \/ calls' = [calls EXCEPT ![s].at = "error"]
        BY <3>2 DEF Answers
      <4> QED BY <4>1, <2>2, <2>3
    <3>3. \/ clock' = clock /\ Answers(s, "error", 0)
          \/ Answers(s, "ok", clock')
      BY DEF Serve
    <3> QED BY <3>1, <3>2, <3>3
  <2> QED BY <2>4, <2>5 DEF Answer
<1>5. PICK at \in {"ok", "error"}, v \in 0..clock' :
        /\ calls' = [calls EXCEPT ![s] = [at |-> at, op |-> calls[s].op, version |-> v,
                                          from |-> calls[s].from]]
        /\ at = "ok" => v = clock'
  BY <1>4
<1>6. /\ calls' = [z \in Slots |-> IF z = s
                                   THEN [at |-> at, op |-> calls[s].op, version |-> v,
                                         from |-> calls[s].from]
                                   ELSE calls[z]]
  BY <1>2, <1>5
<1>7. Calls(clock) \subseteq Calls(clock')
  BY <1>2, <1>3 DEF Calls
<1>8. [at |-> at, op |-> calls[s].op, version |-> v, from |-> calls[s].from] \in Calls(clock')
  BY <1>2 DEF Calls
<1>9. calls' \in [Slots -> Calls(clock')]
  BY <1>2, <1>6, <1>7, <1>8
<1> QED BY <1>3, <1>5, <1>6, <1>9

LEMMA SentAreOperations ==
  ASSUME TInv
  PROVE  /\ NotificationBell.ops \subseteq Operations /\ Here.ops \subseteq Operations
         /\ dialog.is.ops \subseteq Operations
<1>1. Here \in {Portals[portal][n] : n \in DOMAIN Portals[portal]}
  BY DEF TInv, Screen, Here
<1>2. dialog = NoDialog \/ dialog.is \in Here.dialogs
  BY DEF TInv, Screen
<1> QED BY <1>1, <1>2, NoDialogIs DEF Operations

\* Every step sends at most one call, serves one, or only leaves or ends some.
LEMMA CallsStep ==
  ASSUME TInv, [Next]_vars
  PROVE  \/ Left
         \/ /\ Submit \/ Press
            /\ clock' = clock
            /\ \E op \in Operations, from \in {"dialog", "page"} : Sends(op, from)
         \/ \E s \in Slots : Serve(s)
         \/ Foreign
<1>0. clock \in Nat /\ calls \in [Slots -> Calls(clock)]
  BY BoundsAssumption DEF TInv, Control, Calling
<1>1. CASE Open
  BY <1>0, <1>1, OrphanedAre DEF Open, server, Left
<1>2. CASE Filter \/ Retry \/ OpenDialog
  BY <1>2, SameCalls DEF Filter, Retry, OpenDialog, server
<1>3. CASE CloseDialog
  BY <1>0, <1>3, UndialoguedAre DEF CloseDialog, server, Left
<1>4. CASE Submit
  BY <1>4, SentAreOperations DEF Submit, server
<1>5. CASE Press
  BY <1>5, SentAreOperations DEF Press, server
<1>6. CASE Poll \/ ServeQuery \/ SocketBridge \/ UNCHANGED vars
  BY <1>6, SameCalls DEF Poll, ServeQuery, SocketBridge, server, vars
<1>7. CASE QuerySettles
  <2>1. clock' = clock /\ (calls' = calls \/ calls' = Orphaned(calls))
    BY <1>7 DEF QuerySettles, server
  <2> QED BY <1>0, <2>1, OrphanedAre, SameCalls DEF Left
<1>8. ASSUME NEW s \in Slots, Succeeds(s) PROVE Left
  <2> DEFINE after == [calls EXCEPT ![s] = NoCall]
  <2>1. clock' = clock /\ (calls' = after \/ calls' = Orphaned(after))
    BY <1>8 DEF Succeeds, server
  <2>2. /\ after \in [Slots -> Calls(clock)]
        /\ \A z \in Slots : after[z] = IF z = s THEN NoCall ELSE calls[z]
    BY CallEnds
  <2> HIDE DEF after
  <2>3. CASE calls' = after
    BY <2>1, <2>2, <2>3 DEF Left
  <2>4. CASE calls' = Orphaned(after)
    <3>1. /\ Orphaned(after) \in [Slots -> Calls(clock)]
          /\ \A z \in Slots :
               \/ Orphaned(after)[z] = NoCall
               \/ /\ Orphaned(after)[z].at = after[z].at
                  /\ Orphaned(after)[z].op = after[z].op
                  /\ Orphaned(after)[z].version = after[z].version
      BY <1>0, <2>2, OrphanedAre
    <3>2. Orphaned(after)[s].at = "none" => Orphaned(after)[s] = NoCall
      BY <3>1 DEF Calls
    <3> QED BY <2>1, <2>2, <2>4, <3>1, <3>2, NoCallIs DEF Left
  <2> QED BY <2>1, <2>3, <2>4
<1>9. ASSUME NEW s \in Slots, Fails(s) PROVE Left
  <2>1. clock' = clock /\ calls' = [calls EXCEPT ![s] = NoCall]
    BY <1>9 DEF Fails, server
  <2> QED BY <2>1, CallEnds DEF Left
<1> QED BY <1>1, <1>2, <1>3, <1>4, <1>5, <1>6, <1>7, <1>8, <1>9 DEF Next

LEMMA SamePortalStep == ASSUME [Next]_vars PROVE UNCHANGED <<portal, watched>>
BY DEF Next, vars, Open, Filter, Retry, OpenDialog, CloseDialog, Submit, Press, Poll,
       ServeQuery, QuerySettles, Serve, Succeeds, Fails, Foreign, SocketBridge

\* There is room for a change of somebody else's.
LEMMA ForeignRoom ==
  ASSUME TInv, Foreign PROVE clock + Cardinality(Waiting) < MaxWrites
<1>1. Affects(Op("foreign", Shows(watched), {}))
  BY PortalFacts DEF TInv, Control, Affects, Op
<1> QED BY <1>1 DEF Foreign, Room, Waiting

LEMMA Waits ==
  ASSUME TInv
  PROVE  /\ IsFiniteSet(Waiting) /\ Cardinality(Waiting) \in Nat
         /\ \A S \in SUBSET Waiting :
              Cardinality(S) \in Nat /\ Cardinality(S) <= Cardinality(Waiting)
         /\ \A s \in Slots : /\ Cardinality(Waiting \cup {s}) \in Nat
                             /\ Cardinality(Waiting \cup {s}) <= Cardinality(Waiting) + 1
         /\ \A s \in Waiting : Cardinality(Waiting \ {s}) = Cardinality(Waiting) - 1
<1>1. Waiting \subseteq Slots
  BY DEF Waiting
<1>2. IsFiniteSet(Waiting)
  BY <1>1, SlotsFinite, FS_Subset
<1>3. Cardinality(Waiting) \in Nat
  BY <1>2, FS_CardinalityType
<1>4. ASSUME NEW S \in SUBSET Waiting
      PROVE  Cardinality(S) \in Nat /\ Cardinality(S) <= Cardinality(Waiting)
  BY <1>2, FS_Subset, FS_CardinalityType
<1>5. ASSUME NEW s \in Slots
      PROVE  /\ Cardinality(Waiting \cup {s}) \in Nat
             /\ Cardinality(Waiting \cup {s}) <= Cardinality(Waiting) + 1
  <2>1. Cardinality(Waiting \cup {s}) =
          IF s \in Waiting THEN Cardinality(Waiting) ELSE Cardinality(Waiting) + 1
    BY <1>2, FS_AddElement
  <2> HIDE DEF Waiting
  <2> QED BY <1>3, <2>1
<1>6. ASSUME NEW s \in Waiting
      PROVE  Cardinality(Waiting \ {s}) = Cardinality(Waiting) - 1
  BY <1>2, FS_RemoveElement
<1> QED BY <1>2, <1>3, <1>4, <1>5, <1>6

LEMMA AccountedStep == ASSUME TInv, [Next]_vars PROVE Accounted' /\ clock' \in 0..MaxWrites
<1>0. /\ clock \in 0..MaxWrites /\ MaxWrites \in Nat /\ Accounted
      /\ Cardinality(Waiting) \in Nat /\ calls \in [Slots -> Calls(clock)]
  BY Waits, BoundsAssumption DEF TInv, Control, Calling
<1>00. \A op : Affects(op)' <=> Affects(op)
  BY SamePortalStep, SamePortal
<1>1. CASE Left
  <2>1. clock' = clock
    BY <1>1 DEF Left
  <2>2. ASSUME NEW s \in Waiting' PROVE s \in Waiting
    <3>1. s \in Slots /\ calls'[s].at = "sent" /\ Affects(calls'[s].op)
      BY <1>00 DEF Waiting
    <3> QED BY <1>1, <3>1, NoCallIs DEF Waiting, Left
  <2>3. Waiting' \in SUBSET Waiting
    BY <2>2
  <2>4. Cardinality(Waiting') \in Nat /\ Cardinality(Waiting') <= Cardinality(Waiting)
    BY <2>3, Waits
  <2> QED BY <1>0, <2>1, <2>4 DEF Accounted
<1>2. ASSUME clock' = clock, NEW op \in Operations, NEW from \in {"dialog", "page"},
             Sends(op, from)
      PROVE  Accounted' /\ clock' \in 0..MaxWrites
  <2>1. PICK s \in Slots :
          /\ calls[s].at = "none"
          /\ calls' = [z \in Slots |-> IF z = s
                                       THEN [at |-> "sent", op |-> op, version |-> 0,
                                             from |-> from]
                                       ELSE calls[z]]
          /\ Affects(op) => clock + Cardinality(Waiting) < MaxWrites
    BY <1>2, SendsIs
  <2>2. Waiting' = IF Affects(op) THEN Waiting \cup {s} ELSE Waiting
    BY <2>1, <1>00 DEF Waiting
  <2>3. /\ Cardinality(Waiting') \in Nat
        /\ Cardinality(Waiting') <= Cardinality(Waiting) + (IF Affects(op) THEN 1 ELSE 0)
    <3>1. CASE Affects(op)
      BY <2>2, <3>1, Waits
    <3>2. CASE ~Affects(op)
      BY <2>2, <3>2, <1>0
    <3> QED BY <3>1, <3>2
  <2> QED BY <1>0, <1>2, <2>1, <2>3 DEF Accounted
<1>3. ASSUME NEW s \in Slots, Serve(s) PROVE Accounted' /\ clock' \in 0..MaxWrites
  <2>1. PICK at \in {"ok", "error"}, v \in 0..clock' :
          /\ calls' = [z \in Slots |-> IF z = s
                                       THEN [at |-> at, op |-> calls[s].op, version |-> v,
                                             from |-> calls[s].from]
                                       ELSE calls[z]]
          /\ clock' = clock \/ (Affects(calls[s].op) /\ clock' = clock + 1)
    BY <1>3, ServeIs
  <2>2. calls[s].at = "sent"
    BY <1>3 DEF Serve
  <2>3. Waiting' = Waiting \ {s}
    BY <2>1, <1>00 DEF Waiting
  <2>4. CASE Affects(calls[s].op)
    <3>1. Cardinality(Waiting') = Cardinality(Waiting) - 1 /\ Cardinality(Waiting') \in Nat
      <4>1. s \in Waiting
        BY <2>2, <2>4 DEF Waiting
      <4> QED BY <2>3, <4>1, Waits
    <3> QED BY <1>0, <2>1, <3>1 DEF Accounted
  <2>5. CASE ~Affects(calls[s].op)
    <3>1. Waiting' = Waiting
      BY <2>3, <2>5 DEF Waiting
    <3> QED BY <1>0, <2>1, <2>5, <3>1 DEF Accounted
  <2> QED BY <2>4, <2>5
<1>4. CASE Foreign
  <2>1. clock' = clock + 1 /\ calls' = calls
    BY <1>4 DEF Foreign
  <2>2. Waiting' = Waiting
    BY <2>1, <1>00 DEF Waiting
  <2> QED BY <1>0, <1>4, <2>1, <2>2, ForeignRoom DEF Accounted
<1> QED BY <1>1, <1>2, <1>3, <1>4, CallsStep

LEMMA Grows == ASSUME TInv, [Next]_vars PROVE clock \in Nat /\ (clock' = clock \/ clock' = clock + 1)
<1>1. clock \in Nat
  BY DEF TInv, Control
<1>2. ASSUME NEW s \in Slots, Serve(s) PROVE clock' = clock \/ clock' = clock + 1
  BY <1>2 DEF Serve
<1> QED BY <1>1, <1>2, CallsStep DEF Left, Foreign

LEMMA CallingStep == ASSUME TInv, [Next]_vars PROVE Calling'
<1>1. \A n : Calls(n)' = Calls(n)
  BY SamePortalStep, SamePortal
<1>2. calls' \in [Slots -> Calls(clock')]
  <2>1. CASE Left
    BY <2>1 DEF Left
  <2>2. ASSUME clock' = clock, NEW op \in Operations, NEW from \in {"dialog", "page"},
               Sends(op, from)
        PROVE  calls' \in [Slots -> Calls(clock')]
    BY <2>2, SendsIs
  <2>3. ASSUME NEW s \in Slots, Serve(s) PROVE calls' \in [Slots -> Calls(clock')]
    BY <2>3, ServeIs
  <2>4. CASE Foreign
    <3>1. Calls(clock) \subseteq Calls(clock')
      BY Grows DEF Calls
    <3> QED BY <2>4, <3>1 DEF Foreign, TInv, Calling
  <2> QED BY <2>1, <2>2, <2>3, <2>4, CallsStep
<1>3. Calling' <=> calls' \in [Slots -> Calls(clock)']
  BY DEF Calling, Slots
<1>4. Calls(clock)' = Calls(clock')
  BY SamePortalStep, SamePortal DEF Calls
<1> QED BY <1>2, <1>3, <1>4

-----------------------------------------------------------------------------
(* Steps, by what they do to the entry *)

\* What a success does to the entry, before its page or dialog gives way
CachedBy(s) ==
  IF watched \in calls[s].op.sets
  THEN [entry EXCEPT !.has = TRUE, !.data = calls[s].version,
                     !.error = FALSE, !.invalid = FALSE]
  ELSE IF Matches(calls[s].op.invalidates) THEN Invalidated(entry) ELSE entry

LEMMA CachedByIs ==
  ASSUME TInv, NEW s \in Slots
  PROVE  CachedBy(s) \in Entries(clock)
<1>1. clock \in Nat /\ entry \in Entries(clock)
  BY DEF TInv, Control, Cached
<1>2. calls[s].version \in 0..clock
  BY <1>1, CalledIs, NoCallIs DEF Calls
<1>3. [entry EXCEPT !.has = TRUE, !.data = calls[s].version,
                    !.error = FALSE, !.invalid = FALSE] \in Entries(clock)
  BY <1>1, <1>2 DEF Entries
<1>4. Invalidated(entry) \in Entries(clock)
  BY <1>1, InvalidatedIs
<1> QED BY <1>1, <1>3, <1>4 DEF CachedBy

LEMMA SucceedsIs ==
  ASSUME NEW s, Succeeds(s)
  PROVE  /\ entry' \in IF ~Mounted /\ (Mounted)' THEN Mounts(CachedBy(s)) ELSE {CachedBy(s)}
         /\ calls[s].at = "ok" /\ UNCHANGED <<portal, watched, clock, losses, event>>
BY DEF Succeeds, CachedBy, server

LEMMA ServeQueryIs ==
  ASSUME TInv, ServeQuery
  PROVE  /\ entry' \in Entries(clock) /\ entry'.at = "replied" /\ entry'.has = entry.has
         /\ entry'.ok => entry.ok \/ entry'.got = clock
<1>1. clock \in Nat /\ entry \in Entries(clock) /\ clock \in 0..clock
  BY DEF TInv, Control, Cached
<1>2. CASE entry' = [entry EXCEPT !.at = "replied", !.ok = TRUE, !.got = clock]
  <2>1. entry' \in Entries(clock)
    BY <1>1, <1>2 DEF Entries
  <2> QED BY <1>1, <1>2, <2>1 DEF Entries
<1>3. CASE entry' = [entry EXCEPT !.at = "replied"]
  <2>1. entry' \in Entries(clock)
    BY <1>1, <1>3 DEF Entries
  <2>2. entry'.ok = entry.ok
    BY <1>1, <1>3 DEF Entries
  <2> QED BY <1>1, <1>3, <2>1, <2>2 DEF Entries
<1> QED BY <1>2, <1>3 DEF ServeQuery

LEMMA EmptyIs ==
  /\ Empty \in Entries(0) /\ Empty.at = "idle" /\ ~Empty.has /\ ~Empty.invalid
  /\ ~Empty.error /\ ~Empty.ok
BY DEF Empty, Entries

LEMMA QuerySettlesIs ==
  ASSUME TInv, QuerySettles
  PROVE  /\ entry' \in Entries(clock) /\ entry'.at = "idle" /\ entry.at = "replied"
         /\ \/ entry.ok /\ entry'.has /\ entry'.data = entry.got /\ ~entry'.invalid
            \/ ~entry.ok /\ entry'.error /\ entry'.has = entry.has
<1>1. clock \in Nat /\ entry \in Entries(clock)
  BY DEF TInv, Control, Cached
<1>2. CASE entry.ok
  <2>1. entry' = [Empty EXCEPT !.has = TRUE, !.data = entry.got]
    BY <1>2 DEF QuerySettles
  <2>2. entry.got \in 0..clock
    BY <1>1 DEF Entries
  <2>3. entry' = [at |-> "idle", got |-> 0, ok |-> FALSE, has |-> TRUE, data |-> entry.got,
                  error |-> FALSE, invalid |-> FALSE]
    BY <2>1 DEF Empty
  <2>4. entry' \in Entries(clock)
    BY <1>1, <2>2, <2>3 DEF Entries
  <2>5. entry'.at = "idle" /\ entry'.data = entry.got
    BY <2>3
  <2>6. entry'.has /\ ~entry'.invalid
    BY <2>3
  <2>7. entry.at = "replied"
    BY DEF QuerySettles
  <2> QED BY <1>2, <2>4, <2>5, <2>6, <2>7
<1>3. CASE ~entry.ok
  <2>1. entry' = [entry EXCEPT !.at = "idle", !.error = TRUE]
    BY <1>3 DEF QuerySettles
  <2>2. entry' \in Entries(clock) /\ entry'.at = "idle" /\ entry'.error
    BY <1>1, <2>1 DEF Entries
  <2>3. entry'.has = entry.has
    BY <1>1, <2>1 DEF Entries
  <2> QED BY <1>3, <2>2, <2>3 DEF QuerySettles
<1> QED BY <1>2, <1>3

LEMMA EntryStep == ASSUME TInv, [Next]_vars PROVE entry' \in Entries(clock')
<1>1. clock \in Nat /\ entry \in Entries(clock) /\ Entries(clock) \subseteq Entries(clock')
  <2>1. clock \in Nat /\ clock' \in Nat /\ clock <= clock'
    BY Grows
  <2>2. entry \in Entries(clock)
    BY DEF TInv, Cached
  <2>3. 0..clock \subseteq 0..clock'
    BY <2>1
  <2> QED BY <2>1, <2>2, <2>3 DEF Entries
<1>2. \A f \in Mounts(entry) \cup {entry, Fetched(entry), Invalidated(entry)} :
        f \in Entries(clock)
  BY <1>1, FetchedIs, MountsAre, InvalidatedIs
<1>3. CASE Open \/ Filter \/ OpenDialog
  BY <1>1, <1>2, <1>3 DEF Open, Filter, OpenDialog, Renders
<1>4. CASE Retry \/ Poll \/ SocketBridge
  BY <1>1, <1>2, <1>4 DEF Retry, Poll, SocketBridge
<1>5. CASE CloseDialog \/ Submit \/ Press \/ Foreign \/ UNCHANGED vars
  BY <1>1, <1>5 DEF CloseDialog, Submit, Press, Foreign, vars
<1>6. CASE ServeQuery
  BY <1>1, <1>6, ServeQueryIs
<1>7. CASE QuerySettles
  BY <1>1, <1>7, QuerySettlesIs
<1>8. ASSUME NEW s \in Slots, Serve(s) \/ Fails(s) PROVE entry' \in Entries(clock')
  BY <1>1, <1>8 DEF Serve, Fails
<1>9. ASSUME NEW s \in Slots, Succeeds(s) PROVE entry' \in Entries(clock')
  BY <1>1, <1>9, SucceedsIs, CachedByIs, MountsAre
<1> QED BY <1>3, <1>4, <1>5, <1>6, <1>7, <1>8, <1>9 DEF Next

\* What the tab was told
LEMMA OwnStep ==
  ASSUME TInv, [Next]_vars
  PROVE  \/ own' = own
         \/ \E s \in Slots :
              /\ Succeeds(s) /\ own' = calls[s].version /\ calls[s].version > own
              /\ Affects(calls[s].op) /\ <<calls[s].op.does, watched>> \notin Gaps
<1>1. CASE \E s \in Slots : Succeeds(s)
  BY <1>1 DEF Succeeds
<1>2. CASE ~\E s \in Slots : Succeeds(s)
  BY <1>2 DEF Next, vars, Open, Filter, Retry, OpenDialog, CloseDialog, Submit, Press, Poll,
              ServeQuery, QuerySettles, Serve, Fails, Foreign, SocketBridge
<1> QED BY <1>1, <1>2

LEMMA OwnedStep == ASSUME TInv, [Next]_vars PROVE own' \in 0..clock'
<1>1. clock \in Nat /\ own \in 0..clock /\ (clock' = clock \/ clock' = clock + 1)
  BY Grows DEF TInv, Owned
<1>2. \A s \in Slots : calls[s].version \in 0..clock
  BY <1>1, CalledIs, NoCallIs DEF Calls
<1>3. own' = own \/ \E s \in Slots : own' = calls[s].version
  BY OwnStep
<1>4. own' \in 0..clock
  BY <1>1, <1>2, <1>3
<1> QED BY <1>1, <1>4

LEMMA LossesStep == ASSUME TInv, [Next]_vars PROVE losses' \in 0..MaxLosses /\ event' \in BOOLEAN
<1>0. losses \in 0..MaxLosses /\ MaxLosses \in Nat /\ event \in BOOLEAN
  BY BoundsAssumption DEF TInv, Control
<1>1. event' \in BOOLEAN
  BY <1>0 DEF Next, vars, server, Open, Filter, Retry, OpenDialog, CloseDialog, Submit, Press,
              Poll, ServeQuery, QuerySettles, Serve, Succeeds, Fails, Foreign, SocketBridge
<1>2. losses' = losses \/ (losses < MaxLosses /\ losses' = losses + 1)
  BY DEF Next, vars, server, Open, Filter, Retry, OpenDialog, CloseDialog, Submit, Press,
         Poll, ServeQuery, QuerySettles, Serve, Answers, Succeeds, Fails, Foreign,
         SocketBridge
<1> QED BY <1>0, <1>1, <1>2

LEMMA TInvStep == TInv /\ [Next]_vars => TInv'
<1> SUFFICES ASSUME TInv, [Next]_vars PROVE TInv'
  OBVIOUS
<1>1. Control'
  BY SamePortalStep, AccountedStep, LossesStep DEF TInv, Control, Queries
<1>2. Screen'
  BY ScreenStep
<1>3. Cached'
  BY EntryStep DEF Cached, Entries
<1>4. Calling' /\ Accounted'
  BY CallingStep, AccountedStep
<1>5. Owned'
  BY OwnedStep DEF Owned
<1> QED BY <1>1, <1>2, <1>3, <1>4, <1>5 DEF TInv

LEMMA InitTInv == Init => TInv
<1> SUFFICES ASSUME Init PROVE TInv
  OBVIOUS
<1>1. Control
  <2>1. 0 \in 0..MaxWrites /\ 0 \in 0..MaxLosses
    BY BoundsAssumption
  <2> QED BY <2>1 DEF Init, Control
<1>2. Screen
  BY <1>1, PlacesArePages, NoDialogIs DEF Init, Screen, Control
<1>3. Cached
  <2>1. entry = Fetched(Empty) \/ entry = Empty
    BY DEF Init
  <2> QED BY <2>1, EmptyIs, FetchedIs DEF Cached, Init
<1>4. Calling
  BY DEF Init, Calling, Calls
<1>5. Owned
  BY DEF Init, Owned
<1>6. Accounted
  <2>1. Waiting = {}
    BY NoCallIs DEF Init, Waiting
  <2> QED BY <2>1, FS_EmptySet, BoundsAssumption DEF Init, Accounted
<1> QED BY <1>1, <1>2, <1>3, <1>4, <1>5, <1>6 DEF TInv

\* Every state is of its type: a dialog and a call are of the page that is open, and
\* nothing is known of a change that was not made.
THEOREM TypeCorrect == Spec => []TypeOK
<1>1. Init => TInv
  BY InitTInv
<1>2. TInv /\ [Next]_vars => TInv'
  BY TInvStep
<1>3. TInv => TypeOK
  BY TInvImpliesTypeOK
<1> QED BY <1>1, <1>2, <1>3, PTL DEF Spec

-----------------------------------------------------------------------------
(* Dialogs and their calls                                                 *)
(*                                                                         *)
(* The call of a dialog is the only one in flight, and the page below it   *)
(* has no operation in flight that the dialog could take for its own.      *)

Alone(s) == \A z \in Slots \ {s} : calls[z].at = "none"
Asked == dialog.at = "busy" =>
           \E s \in Slots : calls[s].from = "dialog" /\ calls[s].op \in dialog.is.ops
Answerable ==
  \A s \in Slots : calls[s].from = "dialog" =>
    dialog.at = "busy" /\ calls[s].op \in dialog.is.ops /\ Alone(s)
Below ==
  \A s \in Slots : calls[s].from = "page" /\ calls[s].op.goesTo = {} =>
    calls[s].op \notin UNION {d.ops : d \in Here.dialogs}
DInv == Asked /\ Answerable /\ Below

LEMMA DInvImplies == TInv /\ DInv => DialogWaitsForItsCall
<1> SUFFICES ASSUME TInv, DInv PROVE DialogWaitsForItsCall
  OBVIOUS
<1>1. \A s \in Slots : calls[s].from \in {"dialog", "page", "gone"}
  BY CalledIs, NoCallIs DEF Calls
<1> QED BY <1>1 DEF DialogWaitsForItsCall, DInv, Asked, Answerable, Below

LEMMA HereIsParted ==
  ASSUME TInv
  PROVE  \A d \in Here.dialogs :
           /\ d.held \/ \A op \in d.ops : op.goesTo # {}
           /\ d.ops \cap (Here.ops \cup NotificationBell.ops) = {}
BY PortalFacts DEF TInv, Control, Screen, Here, Parted

\* With a dialog that waits, nothing else is in flight.
LEMMA BusyAlone ==
  ASSUME TInv, DInv, dialog.at = "busy", NEW s \in Slots, calls[s].at # "none"
  PROVE  calls[s].from = "dialog" /\ Alone(s)
<1>1. PICK z \in Slots : calls[z].from = "dialog"
  BY DEF DInv, Asked
<1>2. z = s
  BY <1>1 DEF DInv, Answerable, Alone
<1> QED BY <1>1, <1>2 DEF DInv, Answerable

LEMMA AllGone ==
  ASSUME dialog'.at # "busy", \A s \in Slots : calls'[s].from = "gone" PROVE DInv'
BY DEF DInv, Asked, Answerable, Below, Slots

LEMMA DialogsStay ==
  ASSUME DInv, UNCHANGED <<portal, page, dialog, calls>> PROVE DInv'
BY DEF DInv, Asked, Answerable, Below, Slots, Alone, Here

\* No dialog waits, and what is in flight is the page's as before, or gone.
LEMMA OnlyPage ==
  ASSUME DInv, UNCHANGED <<portal, page>>, dialog'.at # "busy",
         \A s \in Slots :
           \/ calls'[s].from = "gone"
           \/ calls'[s].from = "page" /\ calls[s].from = "page" /\ calls'[s].op = calls[s].op
           \/ calls'[s].from = "page" /\ calls'[s].op.goesTo # {}
  PROVE  DInv'
<1>1. Here' = Here
  BY DEF Here
<1> QED BY <1>1 DEF DInv, Asked, Answerable, Below, Slots

LEMMA DInvClose == ASSUME TInv, DInv, CloseDialog PROVE DInv'
<1>1. /\ UNCHANGED <<portal, page>> /\ dialog' = NoDialog /\ calls' = Undialogued(calls)
      /\ dialog.at \in {"open", "shown"} \/ (dialog.at = "busy" /\ ~dialog.is.held)
  BY DEF CloseDialog
<1>2. \A s \in Slots :
        /\ calls'[s].op = calls[s].op
        /\ calls'[s].from = IF calls[s].from = "dialog" THEN "page" ELSE calls[s].from
  BY <1>1, UndialoguedAre DEF TInv, Calling, Control
<1>3. ASSUME NEW s \in Slots, calls[s].from = "dialog" PROVE calls[s].op.goesTo # {}
  <2>1. dialog.at = "busy" /\ calls[s].op \in dialog.is.ops
    BY <1>3 DEF DInv, Answerable
  <2>2. dialog.is \in Here.dialogs /\ ~dialog.is.held
    BY <1>1, <2>1, NoDialogIs DEF TInv, Screen
  <2> QED BY <2>1, <2>2, HereIsParted
<1>4. \A s \in Slots : calls[s].from \in {"dialog", "page", "gone"}
  BY CalledIs, NoCallIs DEF Calls
<1> QED BY <1>1, <1>2, <1>3, <1>4, NoDialogIs, OnlyPage

LEMMA DInvSubmit == ASSUME TInv, DInv, Submit PROVE DInv'
<1>1. /\ UNCHANGED <<portal, page>> /\ dialog.at = "open"
      /\ dialog' = [dialog EXCEPT !.at = "busy"]
  BY DEF Submit
<1>2. dialog'.at = "busy" /\ dialog'.is = dialog.is
  BY <1>1 DEF TInv, Screen
<1>3. PICK op \in dialog.is.ops : Sends(op, "dialog")
  BY DEF Submit
<1>4. op \in Operations
  BY SentAreOperations
<1>5. PICK s \in Slots :
        /\ calls' = [z \in Slots |-> IF z = s
                                     THEN [at |-> "sent", op |-> op, version |-> 0,
                                           from |-> "dialog"]
                                     ELSE calls[z]]
        /\ \A z \in Slots : calls[z].at = "none"
  BY <1>3, <1>4, SendsIs
<1>6. /\ calls'[s].from = "dialog" /\ calls'[s].op = op
      /\ \A z \in Slots \ {s} : calls'[z].at = "none" /\ calls'[z].from = "gone"
  <2>1. \A z \in Slots : calls[z].from = "gone"
    BY <1>5, CalledIs, NoCallIs DEF Calls
  <2> QED BY <1>5, <2>1
<1> QED BY <1>2, <1>3, <1>6 DEF DInv, Asked, Answerable, Below, Slots, Alone

LEMMA DInvPress == ASSUME TInv, DInv, Press PROVE DInv'
<1>1. UNCHANGED <<portal, page, dialog>> /\ dialog = NoDialog
  BY DEF Press, view
<1>2. PICK op \in NotificationBell.ops \cup Here.ops : Sends(op, "page")
  BY DEF Press
<1>3. op \in Operations /\ op \notin UNION {d.ops : d \in Here.dialogs}
  BY SentAreOperations, HereIsParted
<1>4. PICK s \in Slots :
        calls' = [z \in Slots |-> IF z = s
                                  THEN [at |-> "sent", op |-> op, version |-> 0,
                                        from |-> "page"]
                                  ELSE calls[z]]
  BY <1>2, <1>3, SendsIs
<1>5. /\ calls'[s].from = "page" /\ calls'[s].op = op
      /\ \A z \in Slots \ {s} : calls'[z] = calls[z]
  BY <1>4
<1>6. Here' = Here
  BY <1>1 DEF Here
<1>7. \A z \in Slots : calls[z].from # "dialog"
  BY <1>1, NoDialogIs DEF DInv, Answerable
<1> QED BY <1>1, <1>3, <1>5, <1>6, <1>7, NoDialogIs
        DEF DInv, Asked, Answerable, Below, Slots

LEMMA AnsweredNotBusy ==
  ASSUME TInv, DInv, NEW s \in Slots, calls[s].at # "none", NEW at \in {"ok", "error"}
  PROVE  Answered(s, at).at # "busy"
<1>1. CASE dialog.at = "busy"
  <2>1. calls[s].from # "gone" /\ calls[s].op \in dialog.is.ops /\ calls[s].from = "dialog"
    BY <1>1, BusyAlone DEF DInv, Answerable
  <2>2. /\ [dialog EXCEPT !.at = "open"].at = "open"
        /\ [dialog EXCEPT !.at = "shown"].at = "shown"
    BY DEF TInv, Screen
  <2> QED BY <2>1, <2>2, NoDialogIs DEF Answered
<1>2. CASE dialog.at # "busy"
  <2>1. /\ [dialog EXCEPT !.at = "open"].at = "open"
        /\ [dialog EXCEPT !.at = "shown"].at = "shown"
    BY DEF TInv, Screen
  <2> QED BY <1>2, <2>1, NoDialogIs DEF Answered
<1> QED BY <1>1, <1>2

\* A call ends and its answer is shown on the page it came from.
LEMMA DInvAnswer ==
  ASSUME TInv, DInv, UNCHANGED <<portal, page>>, NEW s \in Slots, calls[s].at # "none",
         calls' = [calls EXCEPT ![s] = NoCall],
         NEW at \in {"ok", "error"}, dialog' = Answered(s, at)
  PROVE  DInv'
<1>1. dialog'.at # "busy"
  BY AnsweredNotBusy
<1>2. \A z \in Slots : calls'[z] = IF z = s THEN NoCall ELSE calls[z]
  BY CallEnds
<1>3. ASSUME NEW z \in Slots, z # s PROVE calls[z].from \in {"page", "gone"}
  <2>1. calls[z].from = "dialog" => calls[s].at = "none"
    BY <1>3 DEF DInv, Answerable, Alone
  <2> QED BY <2>1, CalledIs, NoCallIs DEF Calls
<1> QED BY <1>1, <1>2, <1>3, NoCallIs, OnlyPage

LEMMA DInvServe == ASSUME TInv, DInv, NEW s \in Slots, Serve(s) PROVE DInv'
<1>1. UNCHANGED <<portal, page, dialog>> /\ calls[s].at = "sent"
  BY DEF Serve, view
<1>2. PICK at \in {"ok", "error"}, v \in 0..clock' :
        calls' = [z \in Slots |-> IF z = s
                                  THEN [at |-> at, op |-> calls[s].op, version |-> v,
                                        from |-> calls[s].from]
                                  ELSE calls[z]]
  BY ServeIs
<1>3. /\ \A z \in Slots : calls'[z].op = calls[z].op /\ calls'[z].from = calls[z].from
      /\ \A z \in Slots : calls'[z].at = "none" <=> calls[z].at = "none"
  BY <1>1, <1>2
<1>4. Here' = Here
  BY <1>1 DEF Here
<1> QED BY <1>1, <1>3, <1>4 DEF DInv, Asked, Answerable, Below, Slots, Alone

LEMMA DInvStep == TInv /\ DInv /\ [Next]_vars => DInv'
<1> SUFFICES ASSUME TInv, DInv, [Next]_vars PROVE DInv'
  OBVIOUS
<1>0. clock \in Nat /\ calls \in [Slots -> Calls(clock)]
  BY DEF TInv, Control, Calling
<1>1. CASE Open
  BY <1>0, <1>1, OrphanedAre, NoDialogIs, AllGone DEF Open, Goes
<1>2. CASE OpenDialog
  <2>1. /\ UNCHANGED <<portal, page, calls>> /\ dialog = NoDialog /\ dialog'.at = "open"
    BY <1>2 DEF OpenDialog
  <2>2. \A s \in Slots : calls[s].from \in {"page", "gone"}
    BY <2>1, NoDialogIs, CalledIs, NoCallIs DEF DInv, Answerable, Calls
  <2> QED BY <2>1, <2>2, OnlyPage
<1>3. CASE CloseDialog
  BY <1>3, DInvClose
<1>4. CASE Submit
  BY <1>4, DInvSubmit
<1>5. CASE Press
  BY <1>5, DInvPress
<1>6. CASE Filter \/ Retry \/ Poll \/ ServeQuery \/ Foreign \/ SocketBridge \/ UNCHANGED vars
  BY <1>6, DialogsStay DEF Filter, Retry, Poll, ServeQuery, Foreign, SocketBridge, view, vars
<1>7. CASE QuerySettles
  <2>1. CASE UNCHANGED <<portal, page, dialog, calls>>
    BY <2>1, DialogsStay
  <2>2. CASE dialog' = NoDialog /\ calls' = Orphaned(calls)
    BY <1>0, <2>2, OrphanedAre, NoDialogIs, AllGone
  <2> QED BY <1>7, <2>1, <2>2 DEF QuerySettles
<1>8. ASSUME NEW s \in Slots, Serve(s) PROVE DInv'
  BY <1>8, DInvServe
<1>9. ASSUME NEW s \in Slots, Succeeds(s) PROVE DInv'
  <2>1. CASE calls[s].op.goesTo = {}
    <3>1. /\ UNCHANGED <<portal, page>> /\ dialog' = Answered(s, "ok")
          /\ calls' = [calls EXCEPT ![s] = NoCall] /\ calls[s].at = "ok"
      BY <1>9, <2>1 DEF Succeeds
    <3> QED BY <3>1, DInvAnswer
  <2>2. CASE calls[s].op.goesTo # {}
    <3>1. dialog' = NoDialog /\ calls' = Orphaned([calls EXCEPT ![s] = NoCall])
      BY <1>9, <2>2 DEF Succeeds, Goes
    <3>2. \A z \in Slots : calls'[z].from = "gone"
      <4> DEFINE after == [calls EXCEPT ![s] = NoCall]
      <4>1. after \in [Slots -> Calls(clock)]
        BY CallEnds
      <4>2. calls' = Orphaned(after)
        BY <3>1
      <4> HIDE DEF after
      <4> QED BY <1>0, <4>1, <4>2, OrphanedAre
    <3> QED BY <3>1, <3>2, NoDialogIs, AllGone
  <2> QED BY <2>1, <2>2
<1>10. ASSUME NEW s \in Slots, Fails(s) PROVE DInv'
  <2>1. /\ UNCHANGED <<portal, page>> /\ dialog' = Answered(s, "error")
        /\ calls' = [calls EXCEPT ![s] = NoCall] /\ calls[s].at = "error"
    BY <1>10 DEF Fails
  <2> QED BY <2>1, DInvAnswer
<1> QED BY <1>1, <1>2, <1>3, <1>4, <1>5, <1>6, <1>7, <1>8, <1>9, <1>10 DEF Next

\* A dialog is busy exactly while its own request is in flight, and an answer never finds
\* another dialog in the place of its own.  (onOpenChange of the dialogs.)
THEOREM DialogsWait == Spec => []DialogWaitsForItsCall
<1>1. Init => TInv /\ DInv
  <2> SUFFICES ASSUME Init PROVE DInv
    BY InitTInv
  <2>1. dialog.at # "busy" /\ \A s \in Slots : calls[s].from = "gone"
    BY NoDialogIs, NoCallIs DEF Init
  <2> QED BY <2>1 DEF DInv, Asked, Answerable, Below
<1>2. TInv /\ DInv /\ [Next]_vars => (TInv /\ DInv)'
  BY TInvStep, DInvStep
<1>3. TInv /\ DInv => DialogWaitsForItsCall
  BY DInvImplies
<1> QED BY <1>1, <1>2, <1>3, PTL DEF Spec

-----------------------------------------------------------------------------
(* What the tab has done is shown                                          *)
(*                                                                         *)
(* While a call is in flight the watched query is at rest if nothing shows *)
(* it, and not being fetched for the first time if something does: so an   *)
(* invalidation either starts a new fetch or marks the entry.              *)

UpToDate(n) == n >= own

Answer == entry.at = "replied" /\ entry.ok => UpToDate(entry.got)
Rest == entry.at = "idle" => ~entry.has \/ entry.invalid \/ entry.error \/ UpToDate(entry.data)
Marked == entry.at = "idle" /\ Mounted /\ entry.invalid => entry.error
Pending == entry.at # "replied" => ~entry.ok
EntryInv == Answer /\ Rest /\ Marked /\ Pending

Tellable == IF Mounted THEN entry.has ELSE entry.at = "idle"
InOrder(s) ==
  calls[s].at # "none" =>
    /\ Tellable
    /\ calls[s].op.goesTo # {} => Alone(s)
    /\ watched \in calls[s].op.sets =>
         Alone(s) /\ entry.at = "idle" /\ (calls[s].at = "ok" => UpToDate(calls[s].version))
CallInv == \A s \in Slots : InOrder(s)

LEMMA EntryInvImplies == TInv /\ EntryInv => ReadYourWrites
<1> SUFFICES ASSUME EntryInv, Mounted, entry.at = "idle", entry.has, ~entry.error
             PROVE  entry.data >= own
  BY DEF ReadYourWrites
<1>1. ~entry.invalid
  BY DEF EntryInv, Marked
<1>2. UpToDate(entry.data)
  BY <1>1 DEF EntryInv, Rest
<1> QED BY <1>2 DEF UpToDate

\* Nothing but opening a page, a filter or a dialog mounts a component.
LEMMA NothingMounts ==
  ASSUME UNCHANGED <<portal, watched, page, here>>,
         dialog' = NoDialog \/ dialog'.is = dialog.is, (Mounted)'
  PROVE  Mounted
BY NoDialogIs DEF Mounted, Here

LEMMA MountedStays ==
  ASSUME UNCHANGED <<portal, watched, page, here, dialog>> PROVE Mounted' <=> Mounted
BY DEF Mounted, Here

\* A step that leaves the entry and what the tab was told
LEMMA EntryStays ==
  ASSUME EntryInv, UNCHANGED <<entry, own>>, (Mounted)' => Mounted PROVE EntryInv'
<1>1. Answer' /\ Rest' /\ Pending'
  BY DEF EntryInv, Answer, Rest, Pending, UpToDate
<1>2. Marked'
  BY DEF EntryInv, Marked
<1> QED BY <1>1, <1>2 DEF EntryInv

\* A fetch that has just begun owes nothing yet.
LEMMA EntrySent == ASSUME entry'.at = "sent", ~entry'.ok PROVE EntryInv'
BY DEF EntryInv, Answer, Rest, Marked, Pending

LEMMA EntryRenders ==
  ASSUME TInv, EntryInv, own' = own,
         entry' \in IF ~Mounted /\ (Mounted)' THEN Mounts(entry) ELSE {entry}
  PROVE  EntryInv'
<1>1. clock \in Nat /\ entry \in Entries(clock)
  BY DEF TInv, Control, Cached
<1>2. CASE ~Mounted /\ (Mounted)'
  <2>1. entry' \in Mounts(entry)
    BY <1>2
  <2>2. \/ entry' = entry /\ (entry.at = "idle" => ~entry.invalid)
        \/ entry'.at = "sent" /\ ~entry'.ok
    BY <1>1, <2>1, MountsAre
  <2>3. CASE entry' = entry /\ (entry.at = "idle" => ~entry.invalid)
    <3>1. Answer' /\ Rest' /\ Pending'
      BY <2>3 DEF EntryInv, Answer, Rest, Pending, UpToDate
    <3>2. Marked'
      BY <2>3 DEF Marked
    <3> QED BY <3>1, <3>2 DEF EntryInv
  <2> QED BY <2>2, <2>3, EntrySent
<1>3. CASE ~(~Mounted /\ (Mounted)')
  BY <1>3, EntryStays
<1> QED BY <1>2, <1>3

LEMMA EntryServed == ASSUME TInv, EntryInv, ServeQuery PROVE EntryInv'
<1>1. /\ entry.at = "sent" /\ own' = own /\ entry'.at = "replied"
      /\ entry'.ok => entry.ok \/ entry'.got = clock
  BY ServeQueryIs DEF ServeQuery
<1>2. ~entry.ok
  BY <1>1 DEF EntryInv, Pending
<1>3. clock >= own
  BY DEF TInv, Control, Owned
<1>4. entry'.ok => entry'.got = clock
  BY <1>1, <1>2
<1>5. Answer'
  <2>1. SUFFICES ASSUME entry'.ok PROVE entry'.got >= own'
    BY DEF Answer, UpToDate
  <2>2. entry'.got = clock
    BY <1>4, <2>1
  <2> QED BY <1>1, <1>3, <2>2
<1> QED BY <1>1, <1>5 DEF EntryInv, Rest, Marked, Pending

LEMMA EntrySettles == ASSUME TInv, EntryInv, QuerySettles PROVE EntryInv'
<1>1. own' = own /\ entry'.at = "idle" /\ entry.at = "replied"
  BY QuerySettlesIs DEF QuerySettles
<1>2. CASE entry.ok
  <2>1. /\ entry'.data = entry.got
        /\ entry' = [Empty EXCEPT !.has = TRUE, !.data = entry.got]
    BY <1>2, QuerySettlesIs DEF QuerySettles
  <2>2. ~entry'.invalid /\ ~entry'.ok
    BY <2>1 DEF Empty
  <2>3. UpToDate(entry'.data)
    BY <1>1, <1>2, <2>1 DEF EntryInv, Answer
  <2>4. Rest'
    <3>1. UpToDate(entry.data)'
      BY <1>1, <2>3 DEF UpToDate
    <3> QED BY <3>1 DEF Rest
  <2> QED BY <1>1, <2>2, <2>4 DEF EntryInv, Answer, Marked, Pending
<1>3. CASE ~entry.ok
  <2>1. entry' = [entry EXCEPT !.at = "idle", !.error = TRUE] /\ entry'.error
    BY <1>3, QuerySettlesIs DEF QuerySettles
  <2>2. entry'.ok = entry.ok
    BY <2>1 DEF TInv, Cached, Entries
  <2> QED BY <1>1, <1>3, <2>1, <2>2 DEF EntryInv, Answer, Rest, Marked, Pending
<1> QED BY <1>2, <1>3

LEMMA EntryTold ==
  ASSUME TInv, EntryInv, CallInv, NEW s \in Slots, Succeeds(s), [Next]_vars
  PROVE  EntryInv'
<1> DEFINE c == CachedBy(s)
<1>0. /\ entry \in Entries(clock) /\ clock \in Nat /\ c \in Entries(clock)
      /\ calls[s].at = "ok" /\ calls[s].op \in Operations
  BY SucceedsIs, CachedByIs, CalledIs DEF TInv, Control, Cached
<1>1. /\ Tellable
      /\ watched \in calls[s].op.sets => entry.at = "idle" /\ UpToDate(calls[s].version)
  BY <1>0 DEF CallInv, InOrder
<1>2. own' = own \/ (own' = calls[s].version /\ calls[s].version > own)
  BY DEF Succeeds
<1>3. \/ entry' = c /\ ((Mounted)' => Mounted)
      \/ entry' = c /\ (c.at = "idle" => c.has /\ ~c.invalid)
      \/ entry'.at = "sent" /\ ~entry'.ok
  <2>1. entry' \in IF ~Mounted /\ (Mounted)' THEN Mounts(c) ELSE {c}
    BY SucceedsIs
  <2>2. CASE ~Mounted /\ (Mounted)'
    <3>1. entry' \in Mounts(c)
      BY <2>1, <2>2
    <3> HIDE DEF c
    <3> QED BY <1>0, <3>1, MountsAre
  <2> QED BY <2>1, <2>2
<1>4. CASE watched \in calls[s].op.sets
  <2>1. c = [entry EXCEPT !.has = TRUE, !.data = calls[s].version,
                          !.error = FALSE, !.invalid = FALSE]
    BY <1>4 DEF CachedBy
  <2>2. c.at = "idle" /\ c.data = calls[s].version /\ c.ok = entry.ok
    BY <1>0, <1>1, <1>4, <2>1 DEF Entries
  <2>3. ~c.invalid
    BY <1>0, <2>1 DEF Entries
  <2>4. c.data >= own'
    <3>1. calls[s].version \in Nat /\ calls[s].version >= own
      BY <1>0, <1>1, <1>4, CalledIs, NoCallIs DEF Calls, UpToDate
    <3> QED BY <1>2, <2>2, <3>1
  <2>5. ~c.ok
    BY <1>1, <1>4, <2>2 DEF EntryInv, Pending
  <2> HIDE DEF c
  <2>6. CASE entry' = c
    <3>1. UpToDate(entry.data)'
      BY <2>4, <2>6 DEF UpToDate
    <3> QED BY <2>2, <2>3, <2>5, <2>6, <3>1 DEF EntryInv, Answer, Rest, Marked, Pending
  <2> QED BY <1>3, <2>6, EntrySent
<1>5. CASE watched \notin calls[s].op.sets /\ Matches(calls[s].op.invalidates)
  <2>1. c = Invalidated(entry)
    BY <1>5 DEF CachedBy
  <2>2. /\ Mounted => c.at = "sent" /\ ~c.ok
        /\ ~Mounted => entry.at = "idle" /\ c = [entry EXCEPT !.invalid = Known(entry)]
    BY <1>0, <1>1, <2>1, InvalidatedIs DEF Tellable
  <2>3. CASE Mounted
    <3> HIDE DEF c
    <3>1. entry'.at = "sent" /\ ~entry'.ok
      BY <1>3, <2>2, <2>3
    <3> QED BY <3>1, EntrySent
  <2>4. CASE ~Mounted
    <3>1. c.at = "idle" /\ c.has = entry.has /\ c.ok = entry.ok
      BY <1>0, <2>2, <2>4 DEF Entries
    <3>2. c.invalid = Known(entry)
      BY <1>0, <2>2, <2>4 DEF Entries
    <3>3. c.has => c.invalid
      BY <3>1, <3>2 DEF Known
    <3>4. ~c.ok
      BY <2>2, <2>4, <3>1 DEF EntryInv, Pending
    <3> HIDE DEF c
    <3>5. CASE entry' = c /\ ~(Mounted)'
      BY <3>1, <3>3, <3>4, <3>5 DEF EntryInv, Answer, Rest, Marked, Pending
    <3>6. (entry' = c /\ ~(Mounted)') \/ (entry'.at = "sent" /\ ~entry'.ok)
      BY <1>3, <2>4, <3>1, <3>3
    <3> QED BY <3>5, <3>6, EntrySent
  <2> QED BY <2>3, <2>4
<1>6. CASE watched \notin calls[s].op.sets /\ ~Matches(calls[s].op.invalidates)
  <2>1. c = entry
    BY <1>6 DEF CachedBy
  <2>2. own' = own
    <3>1. Affects(calls[s].op) => <<calls[s].op.does, watched>> \in Gaps
      BY <1>0, <1>6, PortalFacts DEF TInv, Control
    <3> QED BY <3>1 DEF Succeeds
  <2>3. entry' \in IF ~Mounted /\ (Mounted)' THEN Mounts(entry) ELSE {entry}
    BY <2>1, SucceedsIs
  <2> QED BY <2>2, <2>3, EntryRenders
<1> QED BY <1>4, <1>5, <1>6

LEMMA EntryNotified == ASSUME TInv, EntryInv, SocketBridge PROVE EntryInv'
<1>0. /\ entry \in Entries(clock) /\ clock \in Nat /\ own' = own
      /\ UNCHANGED <<portal, watched, page, here, dialog>>
  BY DEF TInv, Control, Cached, SocketBridge, view
<1>1. Mounted' <=> Mounted
  BY <1>0, MountedStays
<1>2. CASE entry' = entry
  BY <1>0, <1>1, <1>2, EntryStays
<1>3. CASE entry' = Invalidated(entry)
  <2>1. CASE Mounted /\ ~(entry.at # "idle" /\ ~entry.has)
    <3>1. entry'.at = "sent" /\ ~entry'.ok
      BY <1>0, <1>3, <2>1, InvalidatedIs
    <3> QED BY <3>1, EntrySent
  <2>2. CASE Mounted /\ entry.at # "idle" /\ ~entry.has
    <3>1. entry' = [entry EXCEPT !.invalid = TRUE]
      BY <1>0, <1>3, <2>2, InvalidatedIs
    <3>2. entry'.at = entry.at /\ entry'.ok = entry.ok /\ entry'.got = entry.got
      BY <1>0, <3>1 DEF Entries
    <3>3. UpToDate(entry.got)' <=> UpToDate(entry.got)
      BY <1>0, <3>2 DEF UpToDate
    <3> QED BY <2>2, <3>2, <3>3 DEF EntryInv, Answer, Rest, Marked, Pending
  <2>3. CASE ~Mounted
    <3>1. entry' = [entry EXCEPT !.invalid = Known(entry)]
      BY <1>0, <1>3, <2>3, InvalidatedIs
    <3>2. /\ entry'.at = entry.at /\ entry'.ok = entry.ok /\ entry'.got = entry.got
          /\ entry'.has = entry.has /\ entry'.invalid = Known(entry)
      BY <1>0, <3>1 DEF Entries
    <3>3. UpToDate(entry.got)' <=> UpToDate(entry.got)
      BY <1>0, <3>2 DEF UpToDate
    <3>4. entry'.has => entry'.invalid
      BY <3>2 DEF Known
    <3> QED BY <1>1, <2>3, <3>2, <3>3, <3>4
            DEF EntryInv, Answer, Rest, Marked, Pending
  <2> QED BY <2>1, <2>2, <2>3
<1> QED BY <1>2, <1>3 DEF SocketBridge

\* The user acts only where every call is left in order.
LEMMA CalmCalls ==
  ASSUME TInv, CallInv, own' = own, watched' = watched, Calm',
         \/ Left
         \/ \E op \in Operations, from \in {"dialog", "page"} : Sends(op, from)
  PROVE  CallInv'
<1>1. ASSUME NEW s \in Slots, calls'[s].at = "ok"
      PROVE  /\ calls[s].at = "ok" /\ calls'[s].op = calls[s].op
             /\ calls'[s].version = calls[s].version
  <2>1. CASE Left
    BY <1>1, <2>1, NoCallIs DEF Left
  <2>2. ASSUME NEW op \in Operations, NEW from \in {"dialog", "page"}, Sends(op, from)
        PROVE  calls'[s] = calls[s]
    <3>1. PICK z \in Slots :
            calls' = [y \in Slots |-> IF y = z
                                      THEN [at |-> "sent", op |-> op, version |-> 0,
                                            from |-> from]
                                      ELSE calls[y]]
      BY <2>2, SendsIs
    <3>2. s # z
      BY <1>1, <3>1
    <3> QED BY <3>1, <3>2
  <2> QED BY <1>1, <2>1, <2>2
<1>2. ASSUME NEW s \in Slots, calls'[s].at = "ok", watched \in calls'[s].op.sets
      PROVE  UpToDate(calls[s].version)' 
  <2>1. /\ UpToDate(calls[s].version) /\ calls'[s].version = calls[s].version
    BY <1>1, <1>2 DEF CallInv, InOrder
  <2> QED BY <2>1 DEF UpToDate
<1> QED BY <1>2 DEF CallInv, InOrder, Calm, Tellable, Alone, Slots

\* Calls in flight keep their order while the entry keeps what they need of it.
LEMMA CallsKeepOrder ==
  ASSUME CallInv, watched' = watched, own' = own,
         NEW T \in SUBSET Slots,
         \A s \in Slots : calls'[s].at # "none" =>
           /\ calls[s].at # "none" /\ calls'[s].op = calls[s].op
           /\ watched \in calls[s].op.sets /\ calls'[s].at = "ok" =>
                UpToDate(calls'[s].version)
           /\ s \in T,
         \A s \in T : calls[s].at # "none" =>
           Tellable' /\ (watched \in calls[s].op.sets => entry'.at = "idle")
  PROVE  CallInv'
<1>1. ASSUME NEW s \in Slots, calls'[s].at # "none" PROVE InOrder(s)'
  <2>1. /\ calls[s].at # "none" /\ calls'[s].op = calls[s].op /\ s \in T
        /\ watched \in calls[s].op.sets /\ calls'[s].at = "ok" => UpToDate(calls'[s].version)
    BY <1>1
  <2>2. Alone(s) => Alone(s)'
    BY DEF Alone, Slots
  <2>3. UpToDate(calls'[s].version) => UpToDate(calls[s].version)'
    BY DEF UpToDate
  <2> QED BY <2>1, <2>2, <2>3 DEF CallInv, InOrder
<1> QED BY <1>1 DEF CallInv, InOrder, Slots

\* Of two calls in flight neither leaves the page, and the answer to one of them
\* touches no dialog.
LEMMA TwoInFlight ==
  ASSUME TInv, DInv, CallInv, NEW s \in Slots, NEW z \in Slots, s # z,
         calls[s].at # "none", calls[z].at # "none", NEW at \in {"ok", "error"}
  PROVE  /\ calls[s].op.goesTo = {} /\ watched \notin calls[s].op.sets
         /\ watched \notin calls[z].op.sets /\ Answered(s, at) = dialog
<1>1. /\ calls[s].op.goesTo = {} /\ watched \notin calls[s].op.sets
      /\ watched \notin calls[z].op.sets
  BY DEF CallInv, InOrder, Alone
<1>2. calls[s].from # "dialog"
  BY DEF DInv, Answerable, Alone
<1>3. calls[s].from \in {"dialog", "page", "gone"}
  BY CalledIs, NoCallIs DEF Calls
<1>4. CASE calls[s].from = "page"
  <2>1. calls[s].op \notin UNION {d.ops : d \in Here.dialogs}
    BY <1>1, <1>4 DEF DInv, Below
  <2>2. calls[s].op \notin dialog.is.ops
    BY <2>1, NoDialogIs DEF TInv, Screen
  <2> QED BY <1>1, <2>2 DEF Answered
<1>5. CASE calls[s].from = "gone"
  BY <1>1, <1>5 DEF Answered
<1> QED BY <1>2, <1>3, <1>4, <1>5

LEMMA CallInvPoll == ASSUME TInv, CallInv, Poll PROVE CallInv'
<1>1. /\ UNCHANGED <<portal, watched, page, here, dialog, calls, own>>
      /\ entry' = Fetched(entry) /\ Mounted /\ watched \in Followed
  BY DEF Poll, Polled, Followed, view, Here, TInv, Screen, NotificationBell, Page
<1>2. (Mounted)' /\ entry'.has = entry.has
  BY <1>1, MountedStays, FetchedIs DEF TInv, Cached, Control
<1>3. \A s \in Slots : calls[s].at # "none" => watched \notin calls[s].op.sets
  BY <1>1, CalledIs, PortalFacts DEF TInv, Control
<1>4. \A s \in Slots : calls[s].at # "none" => Tellable'
  BY <1>1, <1>2 DEF CallInv, InOrder, Tellable
<1> QED BY <1>1, <1>3, <1>4, CallsKeepOrder

LEMMA CallInvServeQuery == ASSUME TInv, CallInv, ServeQuery PROVE CallInv'
<1>1. /\ UNCHANGED <<portal, watched, page, here, dialog, calls, own>> /\ entry.at = "sent"
      /\ entry'.has = entry.has
  BY ServeQueryIs DEF ServeQuery, view
<1>2. ASSUME NEW s \in Slots, calls[s].at # "none"
      PROVE  Tellable' /\ watched \notin calls[s].op.sets
  <2>1. Tellable /\ watched \notin calls[s].op.sets
    BY <1>1, <1>2 DEF CallInv, InOrder
  <2> QED BY <1>1, <2>1, MountedStays DEF Tellable
<1> QED BY <1>1, <1>2, CallsKeepOrder

LEMMA CallInvSettles == ASSUME TInv, CallInv, QuerySettles PROVE CallInv'
<1>1. /\ UNCHANGED <<portal, watched, page, here, own, clock>>
      /\ dialog' = dialog \/ dialog' = NoDialog
      /\ entry.at = "replied" /\ entry'.at = "idle" /\ (entry'.has \/ entry'.has = entry.has)
  BY QuerySettlesIs DEF QuerySettles, server
<1>2. ASSUME NEW s \in Slots, calls'[s].at # "none"
      PROVE  calls[s].at # "none" /\ calls'[s].op = calls[s].op
  <2>1. calls' = calls \/ calls' = Orphaned(calls)
    BY DEF QuerySettles
  <2>2. \/ Orphaned(calls)[s] = NoCall
        \/ Orphaned(calls)[s].at = calls[s].at /\ Orphaned(calls)[s].op = calls[s].op
    BY OrphanedAre DEF TInv, Calling, Control
  <2> QED BY <1>2, <2>1, <2>2, NoCallIs
<1>3. ASSUME NEW s \in Slots, calls[s].at # "none"
      PROVE  Tellable' /\ watched \notin calls[s].op.sets
  <2>1. Tellable /\ watched \notin calls[s].op.sets
    BY <1>1, <1>3 DEF CallInv, InOrder
  <2>2. (Mounted)' => Mounted
    BY <1>1, NothingMounts
  <2> QED BY <1>1, <2>1, <2>2 DEF Tellable
<1> QED BY <1>1, <1>2, <1>3, CallsKeepOrder

LEMMA CallInvServe == ASSUME TInv, CallInv, NEW s \in Slots, Serve(s) PROVE CallInv'
<1>1. /\ UNCHANGED <<portal, watched, page, here, dialog, entry, own>> /\ calls[s].at = "sent"
  BY DEF Serve, view
<1>2. PICK at \in {"ok", "error"}, v \in 0..clock' :
        /\ calls' = [z \in Slots |-> IF z = s
                                     THEN [at |-> at, op |-> calls[s].op, version |-> v,
                                           from |-> calls[s].from]
                                     ELSE calls[z]]
        /\ clock' = clock \/ clock' = clock + 1
        /\ at = "ok" => v = clock'
  BY ServeIs
<1>3. clock' >= own
  BY <1>2 DEF TInv, Control, Owned
<1>4. ASSUME NEW z \in Slots, calls'[z].at # "none"
      PROVE  /\ calls[z].at # "none" /\ calls'[z].op = calls[z].op
             /\ watched \in calls[z].op.sets /\ calls'[z].at = "ok" =>
                  UpToDate(calls'[z].version)
  <2>1. CASE z = s
    <3>1. calls'[z].at = at /\ calls'[z].version = v /\ calls'[z].op = calls[z].op
      BY <1>2, <2>1
    <3>2. at = "ok" => UpToDate(v)
      BY <1>2, <1>3 DEF UpToDate
    <3> QED BY <1>1, <2>1, <3>1, <3>2
  <2>2. CASE z # s
    <3>1. calls'[z] = calls[z]
      BY <1>2, <2>2
    <3> QED BY <1>4, <3>1 DEF CallInv, InOrder
  <2> QED BY <2>1, <2>2
<1>5. Mounted' <=> Mounted
  BY <1>1, MountedStays
<1>6. ASSUME NEW z \in Slots, calls[z].at # "none"
      PROVE  Tellable' /\ (watched \in calls[z].op.sets => entry'.at = "idle")
  BY <1>1, <1>5, <1>6 DEF CallInv, InOrder, Tellable
<1> QED BY <1>1, <1>4, <1>6, CallsKeepOrder

LEMMA CallInvFails ==
  ASSUME TInv, DInv, CallInv, NEW s \in Slots, Fails(s) PROVE CallInv'
<1>1. /\ UNCHANGED <<portal, watched, page, here, entry, own>> /\ calls[s].at = "error"
      /\ dialog' = Answered(s, "error") /\ calls' = [calls EXCEPT ![s] = NoCall]
  BY DEF Fails
<1>2. \A z \in Slots : calls'[z] = IF z = s THEN NoCall ELSE calls[z]
  BY <1>1, CallEnds
<1>3. ASSUME NEW z \in Slots \ {s}, calls[z].at # "none"
      PROVE  Tellable' /\ watched \notin calls[z].op.sets
  <2>1. dialog' = dialog /\ watched \notin calls[z].op.sets
    BY <1>1, <1>3, TwoInFlight
  <2>2. Mounted' <=> Mounted
    BY <1>1, <2>1, MountedStays
  <2>3. Tellable
    BY <1>3 DEF CallInv, InOrder
  <2> QED BY <1>1, <2>1, <2>2, <2>3 DEF Tellable
<1>4. ASSUME NEW z \in Slots, calls'[z].at # "none"
      PROVE  z \in Slots \ {s} /\ calls[z].at # "none" /\ calls'[z] = calls[z]
  BY <1>2, <1>4, NoCallIs
<1>5. \A z \in Slots : calls'[z].at # "none" => watched \notin calls[z].op.sets
  BY <1>3, <1>4
<1> QED BY <1>1, <1>3, <1>4, <1>5, CallsKeepOrder

LEMMA CallInvSucceeds ==
  ASSUME TInv, DInv, CallInv, NEW s \in Slots, Succeeds(s) PROVE CallInv'
<1>1. calls[s].at = "ok" /\ UNCHANGED <<portal, watched>>
  BY DEF Succeeds
<1>2. CASE \A z \in Slots \ {s} : calls[z].at = "none"
  <2>1. \A z \in Slots : calls'[z].at = "none"
    <3> DEFINE after == [calls EXCEPT ![s] = NoCall]
    <3>1. /\ after \in [Slots -> Calls(clock)] /\ clock \in Nat
          /\ \A z \in Slots : after[z].at = "none"
      BY <1>2, CallEnds, NoCallIs DEF TInv, Control
    <3>2. calls' = after \/ calls' = Orphaned(after)
      BY DEF Succeeds
    <3> HIDE DEF after
    <3> QED BY <3>1, <3>2, OrphanedAre, NoCallIs
  <2> QED BY <2>1 DEF CallInv, InOrder, Slots
<1>3. CASE \E z \in Slots \ {s} : calls[z].at # "none"
  <2>1. PICK y \in Slots \ {s} : calls[y].at # "none"
    BY <1>3
  <2>2. /\ calls[s].op.goesTo = {} /\ watched \notin calls[s].op.sets
        /\ Answered(s, "ok") = dialog
    BY <1>1, <2>1, TwoInFlight
  <2>3. /\ UNCHANGED <<page, here, dialog>> /\ calls' = [calls EXCEPT ![s] = NoCall]
    BY <2>2 DEF Succeeds
  <2>4. \A z \in Slots : calls'[z] = IF z = s THEN NoCall ELSE calls[z]
    BY <2>3, CallEnds
  <2>5. Mounted' <=> Mounted
    BY <1>1, <2>3, MountedStays
  <2>6. entry' = entry \/ entry' = Invalidated(entry)
    BY <2>2, <2>5, SucceedsIs DEF CachedBy
  <2>7. entry'.has = entry.has /\ (~Mounted => entry'.at = entry.at)
    <3>1. entry \in Entries(clock) /\ clock \in Nat
      BY DEF TInv, Control, Cached
    <3>2. ~Mounted => [entry EXCEPT !.invalid = Known(entry)].at = entry.at
      BY <3>1 DEF Entries
    <3> QED BY <2>6, <3>1, <3>2, InvalidatedIs
  <2>8. ASSUME NEW z \in Slots \ {s}, calls[z].at # "none"
        PROVE  Tellable' /\ watched \notin calls[z].op.sets
    <3>1. Tellable /\ watched \notin calls[z].op.sets
      BY <1>1, <2>8, TwoInFlight DEF CallInv, InOrder
    <3> QED BY <2>5, <2>7, <3>1, <1>1 DEF Tellable
  <2>9. ASSUME NEW z \in Slots, calls'[z].at # "none"
        PROVE  /\ z \in Slots \ {s} /\ calls[z].at # "none" /\ calls'[z] = calls[z]
               /\ InOrder(z)' 
    <3>1. z \in Slots \ {s} /\ calls[z].at # "none" /\ calls'[z] = calls[z]
      BY <2>4, <2>9, NoCallIs
    <3>2. calls[z].op.goesTo = {}
      BY <1>1, <3>1, TwoInFlight
    <3>3. Tellable' /\ watched \notin calls[z].op.sets
      BY <2>8, <3>1
    <3> QED BY <1>1, <3>1, <3>2, <3>3 DEF InOrder
  <2> QED BY <2>9 DEF CallInv, InOrder, Slots
<1> QED BY <1>2, <1>3

LEMMA CallInvNotified == ASSUME TInv, CallInv, SocketBridge PROVE CallInv'
<1>1. /\ UNCHANGED <<portal, watched, page, here, dialog, calls, own>>
      /\ entry' = entry \/ (Matches({<<"notifications">>}) /\ entry' = Invalidated(entry))
  BY DEF SocketBridge, view
<1>2. Mounted' <=> Mounted
  BY <1>1, MountedStays
<1>3. entry'.has = entry.has /\ (~Mounted => entry'.at = entry.at)
  <2>1. entry \in Entries(clock) /\ clock \in Nat
    BY DEF TInv, Control, Cached
  <2>2. ~Mounted => [entry EXCEPT !.invalid = Known(entry)].at = entry.at
    BY <2>1 DEF Entries
  <2> QED BY <1>1, <2>1, <2>2, InvalidatedIs
<1>4. ASSUME NEW s \in Slots, calls[s].at # "none"
      PROVE  /\ Tellable'
             /\ watched \in calls[s].op.sets =>
                  entry'.at = "idle" /\ (calls[s].at = "ok" => UpToDate(calls[s].version))
  <2>1. Tellable'
    BY <1>2, <1>3, <1>4 DEF CallInv, InOrder, Tellable
  <2>2. ASSUME watched \in calls[s].op.sets PROVE entry' = entry
    <3>1. ~Matches({<<"notifications">>})
      BY <1>4, <2>2, CalledIs, PortalFacts DEF TInv, Control, Matches
    <3> QED BY <1>1, <3>1
  <2> QED BY <1>4, <2>1, <2>2 DEF CallInv, InOrder
<1> QED BY <1>1, <1>4, CallsKeepOrder

LEMMA EntryInvStep ==
  ASSUME TInv, DInv, EntryInv, CallInv, [Next]_vars PROVE EntryInv'
<1>0. entry \in Entries(clock) /\ clock \in Nat
  BY DEF TInv, Control, Cached
<1>1. CASE Open \/ Filter \/ OpenDialog
  BY <1>1, EntryRenders DEF Open, Filter, OpenDialog, Renders
<1>2. CASE Retry \/ Poll
  <2>1. entry.at = "idle" /\ entry' = Fetched(entry)
    BY <1>2 DEF Retry, Poll
  <2>2. entry'.at = "sent" /\ ~entry'.ok
    BY <1>0, <2>1, FetchedIs
  <2> QED BY <2>2, EntrySent
<1>3. CASE CloseDialog
  BY <1>3, NothingMounts, EntryStays DEF CloseDialog
<1>4. CASE Submit
  <2>1. dialog'.is = dialog.is
    BY <1>4 DEF Submit, TInv, Screen
  <2> QED BY <1>4, <2>1, NothingMounts, EntryStays DEF Submit
<1>5. CASE Press \/ Foreign \/ UNCHANGED vars
  BY <1>5, MountedStays, EntryStays DEF Press, Foreign, vars, view
<1>6. CASE ServeQuery
  BY <1>6, EntryServed
<1>7. CASE QuerySettles
  BY <1>7, EntrySettles
<1>8. ASSUME NEW s \in Slots, Serve(s) PROVE EntryInv'
  BY <1>8, MountedStays, EntryStays DEF Serve, view
<1>9. ASSUME NEW s \in Slots, Succeeds(s) PROVE EntryInv'
  BY <1>9, EntryTold
<1>10. ASSUME NEW s \in Slots, Fails(s) PROVE EntryInv'
  <2>1. /\ UNCHANGED <<portal, watched, page, here, entry, own>>
        /\ dialog' = Answered(s, "error")
    BY <1>10 DEF Fails
  <2>2. dialog' = NoDialog \/ dialog'.is = dialog.is
    BY <2>1, AnsweredIs DEF TInv
  <2> QED BY <2>1, <2>2, NothingMounts, EntryStays
<1>11. CASE SocketBridge
  BY <1>11, EntryNotified
<1> QED BY <1>1, <1>2, <1>3, <1>4, <1>5, <1>6, <1>7, <1>8, <1>9, <1>10, <1>11 DEF Next

LEMMA CallInvStep ==
  ASSUME ~Hasty, TInv, DInv, EntryInv, CallInv, [Next]_vars PROVE CallInv'
<1>1. CASE Open \/ Filter \/ Retry \/ OpenDialog \/ CloseDialog \/ Submit \/ Press
  <2>1. Calm' /\ own' = own
    BY <1>1 DEF Open, Filter, Retry, OpenDialog, CloseDialog, Submit, Press, Patient
  <2>2. \/ Left
        \/ \E op \in Operations, from \in {"dialog", "page"} : Sends(op, from)
    <3>1. CASE Submit
      BY <3>1, SentAreOperations DEF Submit
    <3>2. CASE Press
      BY <3>2, SentAreOperations DEF Press
    <3>3. CASE Open
      BY <3>3, OrphanedAre DEF Open, server, Left, TInv, Control, Calling
    <3>4. CASE Filter \/ Retry \/ OpenDialog
      BY <3>4, SameCalls DEF Filter, Retry, OpenDialog, server
    <3>5. CASE CloseDialog
      BY <3>5, UndialoguedAre DEF CloseDialog, server, Left, TInv, Control, Calling
    <3> QED BY <1>1, <3>1, <3>2, <3>3, <3>4, <3>5
  <2> QED BY <2>1, <2>2, SamePortalStep, CalmCalls
<1>2. CASE Poll
  BY <1>2, CallInvPoll
<1>3. CASE ServeQuery
  BY <1>3, CallInvServeQuery
<1>4. CASE QuerySettles
  BY <1>4, CallInvSettles
<1>5. ASSUME NEW s \in Slots, Serve(s) PROVE CallInv'
  BY <1>5, CallInvServe
<1>6. ASSUME NEW s \in Slots, Succeeds(s) PROVE CallInv'
  BY <1>6, CallInvSucceeds
<1>7. ASSUME NEW s \in Slots, Fails(s) PROVE CallInv'
  BY <1>7, CallInvFails
<1>8. CASE SocketBridge
  BY <1>8, CallInvNotified
<1>9. CASE Foreign \/ UNCHANGED vars
  <2>1. UNCHANGED <<portal, watched, page, here, dialog, entry, calls, own>>
    BY <1>9 DEF Foreign, vars, view
  <2> QED BY <2>1, MountedStays DEF CallInv, InOrder, Tellable, Alone, UpToDate, Slots
<1> QED BY <1>1, <1>2, <1>3, <1>4, <1>5, <1>6, <1>7, <1>8, <1>9 DEF Next

\* No change that the tab was told has succeeded is missing from what it shows at rest,
\* whatever page or dialog it was made on, unless the code tells the cache nothing of
\* it (Gaps) or the user acts while an answer read before the change could still pass
\* for fresh.  (onSuccess of the mutations and lib/query.ts.)
THEOREM OwnWritesRead == ASSUME ~Hasty PROVE Spec => []ReadYourWrites
<1> DEFINE RInv == TInv /\ DInv /\ EntryInv /\ CallInv
<1>1. Init => RInv
  <2> SUFFICES ASSUME Init PROVE DInv /\ EntryInv /\ CallInv
    BY InitTInv
  <2>1. \A s \in Slots : calls[s].at = "none" /\ calls[s].from = "gone"
    BY NoCallIs DEF Init
  <2>2. DInv
    BY <2>1, NoDialogIs DEF Init, DInv, Asked, Answerable, Below
  <2>3. CallInv
    BY <2>1 DEF CallInv, InOrder
  <2>4. EntryInv
    <3>1. (entry.at = "sent" /\ ~entry.ok) \/ entry = Empty
      <4>1. Fetched(Empty).at = "sent" /\ ~Fetched(Empty).ok
        BY EmptyIs, FetchedIs
      <4> QED BY <4>1 DEF Init
    <3> QED BY <3>1, EmptyIs DEF EntryInv, Answer, Rest, Marked, Pending
  <2> QED BY <2>2, <2>3, <2>4
<1>2. RInv /\ [Next]_vars => RInv'
  BY TInvStep, DInvStep, EntryInvStep, CallInvStep
<1>3. RInv => ReadYourWrites
  BY EntryInvImplies
<1> HIDE DEF RInv
<1> QED BY <1>1, <1>2, <1>3, PTL DEF Spec

=============================================================================
