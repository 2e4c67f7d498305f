-------------------------- MODULE MiniVaultProofs --------------------------
(***************************************************************************)
(* The safety of the composed server, for any sets of threads, users,      *)
(* tokens, paths and key names.                                            *)
(***************************************************************************)
EXTENDS MiniVault, TLAPS

-----------------------------------------------------------------------------
(* The inductive invariant                                                 *)

\* s is what is left of the script of route r.  Its length says where it is.
Suffix(s, r) ==
    /\ s \in Seq(Access) /\ Len(s) \in 1 .. Len(Script[r])
    /\ \A i \in 1 .. Len(s) : s[i] = Script[r][Len(Script[r]) - Len(s) + i]

\* The request is past its first checks and works on its script.
OnScript(t) == todo[t] # <<>> /\ todo[t] # <<"log">>

\* With n accesses left, route r is between BEGIN IMMEDIATE and COMMIT.
InTransaction(r, n) ==
    \/ r = "kv_write" /\ n = 1
    \/ r \in {"key_create", "key_rotate"} /\ n \in {2, 3}

OwnKeyRoute == {"key_rotate", "key_revoke", "key_use", "key_verify"}

\* Where a request is.  Only _authorize and _owned_key deny; and who has committed
\* has at most the row to read back.
Course(t) ==
    /\ todo[t] # <<>> => reply[t] = None
    /\ req[t] = None => ~done[t]
    /\ OnScript(t) => Suffix(todo[t], req[t].route)
    /\ todo[t] = <<"log">> => ~done[t] /\ req[t].route \in KvRoute \cup OwnKeyRoute
    /\ done[t] /\ todo[t] # <<>> =>
          /\ OnScript(t) /\ Len(todo[t]) = 1
          /\ req[t].route \in {"key_create", "key_rotate"}

Holding(t) == writer = t <=> OnScript(t) /\ InTransaction(req[t].route, Len(todo[t]))

\* Who is past _authorize names himself in the path; who is past _owned_key has
\* found the key.
Entitled(t) == OnScript(t) =>
    /\ Rightful(t)
    /\ req[t].route \in OwnKeyRoute /\ Len(todo[t]) < Len(Script[req[t].route]) => "present" \in fate[t]

\* The history of a row, as long as a request asks for it.
Witnessed(t) == req[t] # None /\ req[t].item # None =>
    /\ row(req[t]) \in Rows => "present" \in fate[t]
    /\ "present" \in fate[t] /\ row(req[t]) \notin Rows => "removed" \in fate[t]

\* NoOracle, DenialsLogged and RefusedMeansUndone for one request.
Answered(t) == reply[t] # None =>
    /\ req[t].item # None /\ req[t].route # "key_create" =>
          \/ reply[t] \in {401, 403, 500}
          \/ IF req[t].route \in KvRoute THEN Rightful(t) ELSE "present" \in fate[t]
    /\ reply[t] = 403 =>
          \/ noted[t] = row(req[t])
          \/ Rightful(t) /\ {"present", "removed"} \subseteq fate[t]
    /\ reply[t] \in 400 .. 499 /\ done[t] =>
          req[t].route = "key_rotate" /\ "removed" \in fate[t]

\* OnlyAdmittedFinish for one request.
Admitted(t) == todo[t] # <<>> /\ sessions[req[t].token] # "active" => t \in late

RequestInv(t) ==
    Course(t) /\ Holding(t) /\ Entitled(t) /\ Witnessed(t) /\ Answered(t) /\ Admitted(t)

IndInv == TypeOK /\ \A t \in Thread : RequestInv(t)

-----------------------------------------------------------------------------
(* Scripts                                                                 *)

Route == KvRoute \cup KeyRoute \cup {"key_list", "audit", "logout"}

\* Script, access by access.
LEMMA ScriptTable ==
  /\ Len(Script["kv_write"]) = 4 /\ Script["kv_write"][1] = "get_dek"
  /\ Script["kv_write"][2] = "get_dek" /\ Script["kv_write"][3] = "begin"
  /\ Script["kv_write"][4] = "commit"
  /\ Len(Script["kv_read"]) = 3 /\ Script["kv_read"][1] = "get_dek"
  /\ Script["kv_read"][2] = "select" /\ Script["kv_read"][3] = "get_dek"
  /\ Len(Script["kv_versions"]) = 2 /\ Script["kv_versions"][1] = "get_dek"
  /\ Script["kv_versions"][2] = "select"
  /\ Len(Script["kv_delete"]) = 2 /\ Script["kv_delete"][1] = "get_dek"
  /\ Script["kv_delete"][2] = "delete"
  /\ Len(Script["key_create"]) = 5 /\ Script["key_create"][1] = "get_dek"
  /\ Script["key_create"][2] = "begin" /\ Script["key_create"][3] = "get_dek"
  /\ Script["key_create"][4] = "commit" /\ Script["key_create"][5] = "reread"
  /\ Len(Script["key_rotate"]) = 6 /\ Script["key_rotate"][1] = "lookup"
  /\ Script["key_rotate"][2] = "get_dek" /\ Script["key_rotate"][3] = "begin"
  /\ Script["key_rotate"][4] = "get_dek" /\ Script["key_rotate"][5] = "commit"
  /\ Script["key_rotate"][6] = "reread"
  /\ Len(Script["key_list"]) = 2 /\ Script["key_list"][1] = "get_dek"
  /\ Script["key_list"][2] = "list"
  /\ Len(Script["key_revoke"]) = 3 /\ Script["key_revoke"][1] = "lookup"
  /\ Script["key_revoke"][2] = "get_dek" /\ Script["key_revoke"][3] = "delete"
  /\ Len(Script["key_use"]) = 4 /\ Script["key_use"][1] = "lookup"
  /\ Script["key_use"][2] = "get_dek" /\ Script["key_use"][3] = "select"
  /\ Script["key_use"][4] = "get_dek"
  /\ Len(Script["key_verify"]) = 3 /\ Script["key_verify"][1] = "lookup"
  /\ Script["key_verify"][2] = "get_dek" /\ Script["key_verify"][3] = "list"
  /\ Len(Script["audit"]) = 1 /\ Script["audit"][1] = "list"
  /\ Len(Script["logout"]) = 1 /\ Script["logout"][1] = "revoke"
  BY DEF Script

LEMMA ScriptSeq == \A r \in Route : Script[r] \in Seq(Access)
  <1> USE DEF Script, Access
  <1>1. Script["kv_write"] \in Seq(Access)
    OBVIOUS
  <1>2. Script["kv_read"] \in Seq(Access)
    OBVIOUS
  <1>3. Script["kv_versions"] \in Seq(Access)
    OBVIOUS
  <1>4. Script["kv_delete"] \in Seq(Access)
    OBVIOUS
  <1>5. Script["key_create"] \in Seq(Access)
    OBVIOUS
  <1>6. Script["key_rotate"] \in Seq(Access)
    OBVIOUS
  <1>7. Script["key_list"] \in Seq(Access)
    OBVIOUS
  <1>8. Script["key_revoke"] \in Seq(Access)
    OBVIOUS
  <1>9. Script["key_use"] \in Seq(Access)
    OBVIOUS
  <1>10. Script["key_verify"] \in Seq(Access)
    OBVIOUS
  <1>11. Script["audit"] \in Seq(Access)
    OBVIOUS
  <1>12. Script["logout"] \in Seq(Access)
    OBVIOUS
  <1> QED
    BY <1>1, <1>2, <1>3, <1>4, <1>5, <1>6, <1>7, <1>8, <1>9, <1>10, <1>11, <1>12
       DEF Route, KvRoute, KeyRoute

\* Which access comes with n left to do, turned around.
At_(r, n) == Script[r][Len(Script[r]) - n + 1]

LEMMA Places ==
  ASSUME NEW r \in Route, NEW n \in 1 .. Len(Script[r])
  PROVE  /\ At_(r, n) # "log"
         /\ At_(r, n) = "lookup" => r \in OwnKeyRoute /\ n = Len(Script[r])
         /\ r \in OwnKeyRoute /\ n = Len(Script[r]) => At_(r, n) = "lookup"
         /\ At_(r, n) = "begin" =>
               \/ r = "kv_write" /\ n = 2
               \/ r \in {"key_create", "key_rotate"} /\ n = 4
         /\ At_(r, n) = "commit" =>
               \/ r = "kv_write" /\ n = 1
               \/ r \in {"key_create", "key_rotate"} /\ n = 2
         /\ At_(r, n) = "reread" <=> r \in {"key_create", "key_rotate"} /\ n = 1
         /\ At_(r, n) = "delete" => r \in {"kv_delete", "key_revoke"} /\ n = 1
         /\ At_(r, n) = "revoke" => r = "logout" /\ n = 1
         /\ At_(r, n) = "list" => r \in {"key_list", "audit", "key_verify"} /\ n = 1
         /\ At_(r, n) = "select" =>
               \/ r \in {"kv_read", "key_use"} /\ n = 2
               \/ r = "kv_versions" /\ n = 1
         /\ InTransaction(r, n) => At_(r, n) \in {"get_dek", "commit"}
         /\ At_(r, n) = "get_dek" /\ n > 1 =>
               (InTransaction(r, n) <=> InTransaction(r, n - 1))
         /\ At_(r, n) = "get_dek" /\ n = 1 => ~InTransaction(r, n)
  <1> USE DEF InTransaction, OwnKeyRoute
  <1>1. CASE r = "kv_write"
    <2>1. Len(Script[r]) = 4 /\ n \in {1, 2, 3, 4}
      BY <1>1, ScriptTable
    <2>2. At_(r, n) = IF n = 1 THEN "commit" ELSE IF n = 2 THEN "begin" ELSE "get_dek"
      BY <1>1, <2>1, ScriptTable DEF At_
    <2> QED
      BY <1>1, <2>1, <2>2
  <1>2. CASE r = "kv_read"
    <2>1. Len(Script[r]) = 3 /\ n \in {1, 2, 3}
      BY <1>2, ScriptTable
    <2>2. At_(r, n) = IF n = 1 THEN "get_dek" ELSE IF n = 2 THEN "select" ELSE "get_dek"
      BY <1>2, <2>1, ScriptTable DEF At_
    <2> QED
      BY <1>2, <2>1, <2>2
  <1>3. CASE r = "kv_versions"
    <2>1. Len(Script[r]) = 2 /\ n \in {1, 2}
      BY <1>3, ScriptTable
    <2>2. At_(r, n) = IF n = 1 THEN "select" ELSE "get_dek"
      BY <1>3, <2>1, ScriptTable DEF At_
    <2> QED
      BY <1>3, <2>1, <2>2
  <1>4. CASE r = "kv_delete"
    <2>1. Len(Script[r]) = 2 /\ n \in {1, 2}
      BY <1>4, ScriptTable
    <2>2. At_(r, n) = IF n = 1 THEN "delete" ELSE "get_dek"
      BY <1>4, <2>1, ScriptTable DEF At_
    <2> QED
      BY <1>4, <2>1, <2>2
  <1>5. CASE r = "key_create"
    <2>1. Len(Script[r]) = 5 /\ n \in {1, 2, 3, 4, 5}
      BY <1>5, ScriptTable
    <2>2. At_(r, n) = IF n = 1 THEN "reread" ELSE IF n = 2 THEN "commit" ELSE
                      IF n = 3 THEN "get_dek" ELSE IF n = 4 THEN "begin" ELSE "get_dek"
      BY <1>5, <2>1, ScriptTable DEF At_
    <2> QED
      BY <1>5, <2>1, <2>2
  <1>6. CASE r = "key_rotate"
    <2>1. Len(Script[r]) = 6 /\ n \in {1, 2, 3, 4, 5, 6}
      BY <1>6, ScriptTable
    <2>2. At_(r, n) = IF n = 1 THEN "reread" ELSE IF n = 2 THEN "commit" ELSE IF n = 3 THEN "get_dek" ELSE
                      IF n = 4 THEN "begin" ELSE IF n = 5 THEN "get_dek" ELSE "lookup"
      BY <1>6, <2>1, ScriptTable DEF At_
    <2> QED
      BY <1>6, <2>1, <2>2
  <1>7. CASE r = "key_list"
    <2>1. Len(Script[r]) = 2 /\ n \in {1, 2}
      BY <1>7, ScriptTable
    <2>2. At_(r, n) = IF n = 1 THEN "list" ELSE "get_dek"
      BY <1>7, <2>1, ScriptTable DEF At_
    <2> QED
      BY <1>7, <2>1, <2>2
  <1>8. CASE r = "key_revoke"
    <2>1. Len(Script[r]) = 3 /\ n \in {1, 2, 3}
      BY <1>8, ScriptTable
    <2>2. At_(r, n) = IF n = 1 THEN "delete" ELSE IF n = 2 THEN "get_dek" ELSE "lookup"
      BY <1>8, <2>1, ScriptTable DEF At_
    <2> QED
      BY <1>8, <2>1, <2>2
  <1>9. CASE r = "key_use"
    <2>1. Len(Script[r]) = 4 /\ n \in {1, 2, 3, 4}
      BY <1>9, ScriptTable
    <2>2. At_(r, n) = IF n = 1 THEN "get_dek" ELSE IF n = 2 THEN "select" ELSE
                      IF n = 3 THEN "get_dek" ELSE "lookup"
      BY <1>9, <2>1, ScriptTable DEF At_
    <2> QED
      BY <1>9, <2>1, <2>2
  <1>10. CASE r = "key_verify"
    <2>1. Len(Script[r]) = 3 /\ n \in {1, 2, 3}
      BY <1>10, ScriptTable
    <2>2. At_(r, n) = IF n = 1 THEN "list" ELSE IF n = 2 THEN "get_dek" ELSE "lookup"
      BY <1>10, <2>1, ScriptTable DEF At_
    <2> QED
      BY <1>10, <2>1, <2>2
  <1>11. CASE r = "audit"
    <2>1. Len(Script[r]) = 1 /\ n \in {1}
      BY <1>11, ScriptTable
    <2>2. At_(r, n) = "list"
      BY <1>11, <2>1, ScriptTable DEF At_
    <2> QED
      BY <1>11, <2>1, <2>2
  <1>12. CASE r = "logout"
    <2>1. Len(Script[r]) = 1 /\ n \in {1}
      BY <1>12, ScriptTable
    <2>2. At_(r, n) = "revoke"
      BY <1>12, <2>1, ScriptTable DEF At_
    <2> QED
      BY <1>12, <2>1, <2>2
  <1> QED
    BY <1>1, <1>2, <1>3, <1>4, <1>5, <1>6, <1>7, <1>8, <1>9, <1>10, <1>11, <1>12
       DEF Route, KvRoute, KeyRoute

\* The first access of what is left is the one its length says.
LEMMA SuffixHead ==
  ASSUME NEW r \in Route, NEW s, Suffix(s, r)
  PROVE  /\ s # <<>> /\ s # <<"log">> /\ Len(s) \in 1 .. Len(Script[r])
         /\ Head(s) = At_(r, Len(s))
  <1>1. s \in Seq(Access) /\ Len(s) \in 1 .. Len(Script[r]) /\ Len(Script[r]) \in Nat
    BY ScriptSeq DEF Suffix
  <1>2. s[1] = At_(r, Len(s))
    BY <1>1 DEF Suffix, At_
  <1>3. At_(r, Len(s)) # "log"
    BY <1>1, Places
  <1>4. s # <<>> /\ Head(s) = s[1]
    BY <1>1
  <1>5. s # <<"log">>
    BY <1>2, <1>3
  <1> QED
    BY <1>1, <1>2, <1>4, <1>5

LEMMA SuffixTail ==
  ASSUME NEW r \in Route, NEW s, Suffix(s, r), Len(s) # 1
  PROVE  Suffix(Tail(s), r) /\ Len(Tail(s)) = Len(s) - 1
  <1>0. Len(Script[r]) \in Nat /\ Len(s) \in 1 .. Len(Script[r]) /\ s \in Seq(Access)
    BY ScriptSeq DEF Suffix
  <1>1. s \in Seq(Access) /\ Len(s) \in 2 .. Len(Script[r]) /\ Len(Script[r]) \in Nat
    BY <1>0
  <1>2. /\ Tail(s) \in Seq(Access) /\ Len(Tail(s)) = Len(s) - 1
        /\ \A i \in 1 .. Len(s) - 1 : Tail(s)[i] = s[i + 1]
    BY <1>1
  <1>3. ASSUME NEW i \in 1 .. Len(s) - 1
        PROVE  s[i + 1] = Script[r][Len(Script[r]) - (Len(s) - 1) + i]
    <2>1. PICK j \in 1 .. Len(s) : j = i + 1
      BY <1>1
    <2>2. s[j] = Script[r][Len(Script[r]) - Len(s) + j]
      BY DEF Suffix
    <2>3. Len(Script[r]) - Len(s) + j = Len(Script[r]) - (Len(s) - 1) + i
      <3>1. PICK l \in Nat, m \in Nat : l = Len(Script[r]) /\ m = Len(s)
        BY <1>1
      <3>2. i \in Nat /\ j = i + 1 /\ m >= 1
        BY <1>1, <2>1, <3>1
      <3>3. l - m + j = l - (m - 1) + i
        BY <3>2
      <3> QED
        BY <3>1, <3>3
    <2> QED
      BY <2>1, <2>2, <2>3
  <1> QED
    BY <1>1, <1>2, <1>3 DEF Suffix

LEMMA WholeScript == \A r \in Route : Suffix(Script[r], r)
  <1> SUFFICES ASSUME NEW r \in Route PROVE Suffix(Script[r], r)
    OBVIOUS
  <1>1. Script[r] \in Seq(Access)
    BY ScriptSeq
  <1>2. Len(Script[r]) >= 1
    BY ScriptTable DEF Route, KvRoute, KeyRoute
  <1> QED
    BY <1>1, <1>2 DEF Suffix

-----------------------------------------------------------------------------
(* Requests and answers                                                    *)

LEMMA RequestFields ==
  ASSUME NEW r \in Request
  PROVE  /\ r.route \in Route /\ r.token \in Token /\ user(r) \in User
         /\ r.route \in KvRoute => r.item \in Path
         /\ r.route \in KeyRoute => r.item \in Name
         /\ r.route \notin KvRoute \cup KeyRoute => r.item = None
  BY MiniVaultAssumption DEF Request, Route, KvRoute, KeyRoute, user

LEMMA StatusTable ==
  /\ status_of("UnauthenticatedError") = 401 /\ status_of("PermissionDeniedError") = 403
  /\ status_of("KeyUnavailableError") = 403 /\ status_of("RecordNotFoundError") = 404
  /\ status_of("KeyVersionUnavailableError") = 404 /\ status_of("KeyAlreadyExistsError") = 409
  /\ status_of("InvalidKeyUsageError") = 400 /\ status_of("TransitTamperedError") = 409
  /\ status_of("VaultLockedError") = 423
  /\ status_of("RuntimeError") = 500 /\ status_of("OperationalError") = 500
  BY DEF status_of, handlers

\* A row of the tables that a key request names is a key.
LEMMA RowKinds ==
  ASSUME TypeOK, NEW r \in Request
  PROVE  /\ r.route \in KeyRoute => (row(r) \in Rows <=> row(r) \in named_keys)
         /\ r.route \in KvRoute => row(r) \in User \X Path
         /\ r.route \in KeyRoute => row(r) \in User \X Name
  <1>1. CASE r.route \in KvRoute
    BY <1>1, RequestFields DEF row, KvRoute, KeyRoute
  <1>2. CASE r.route \in KeyRoute
    <2>1. r.item \in Name /\ user(r) \in User /\ r.item \notin Path
      BY <1>2, RequestFields, MiniVaultAssumption
    <2>2. row(r) \notin User \X Path
      BY <2>1 DEF row
    <2> QED
      BY <1>2, <2>1, <2>2 DEF row, Rows, TypeOK, KvRoute, KeyRoute
  <1> QED
    BY <1>1, <1>2

LEMMA InitInd == Init => IndInv
  <1> SUFFICES ASSUME Init PROVE IndInv
    OBVIOUS
  <1>1. TypeOK
    <2>1. <<>> \in Seq(Access)
      OBVIOUS
    <2> QED
      BY <2>1 DEF Init, TypeOK
  <1>2. ASSUME NEW t \in Thread PROVE RequestInv(t)
    BY MiniVaultAssumption DEF Init, RequestInv, Course, Holding, Entitled, Witnessed, Answered,
       Admitted, OnScript
  <1> QED
    BY <1>1, <1>2 DEF IndInv

-----------------------------------------------------------------------------
(* How a request goes on                                                   *)

\* A step of t moves no other request.
Turn(t) ==
    /\ todo' \in [Thread -> Seq(Access)] /\ reply' \in [Thread -> Status \cup {None}]
    /\ late' \subseteq Thread
    /\ \A u \in Thread \ {t} : todo'[u] = todo[u] /\ reply'[u] = reply[u] /\ (u \in late => u \in late')

LEMMA AnswerFacts ==
  ASSUME TypeOK, NEW t \in Thread, NEW st \in Status, Answer(t, st)
  PROVE  Turn(t) /\ todo'[t] = <<>> /\ reply'[t] = st
  <1>1. <<>> \in Seq(Access)
    OBVIOUS
  <1> QED
    BY <1>1 DEF TypeOK, Answer, Turn

LEMMA ContinueFacts ==
  ASSUME TypeOK, NEW t \in Thread, NEW s \in Seq(Access), Continue(t, s)
  PROVE  Turn(t) /\ todo'[t] = s /\ reply' = reply /\ late' = late
  BY DEF TypeOK, Continue, Turn

\* A request on its script is at the access that the number of those left says.
LEMMA Where ==
  ASSUME IndInv, NEW t \in Thread, todo[t] # <<>>, NEW access, At(t, access)
  PROVE  /\ req[t] \in Request /\ req[t].route \in Route /\ reply[t] = None
         /\ access # "log" => OnScript(t)
         /\ OnScript(t) => /\ Suffix(todo[t], req[t].route)
                           /\ Len(todo[t]) \in 1 .. Len(Script[req[t].route])
                           /\ access = At_(req[t].route, Len(todo[t]))
  <1>1. req[t] \in Request /\ req[t].route \in Route /\ reply[t] = None
    BY RequestFields DEF IndInv, TypeOK, RequestInv, Course
  <1>2. todo[t] = <<"log">> => access = "log"
    BY DEF At
  <1>3. OnScript(t) => Suffix(todo[t], req[t].route)
    BY DEF IndInv, RequestInv, Course
  <1> QED
    BY <1>1, <1>2, <1>3, SuffixHead DEF OnScript, At

LEMMA ProceedFacts ==
  ASSUME IndInv, NEW t \in Thread, OnScript(t), Proceed(t),
         req[t].route \in Route, Suffix(todo[t], req[t].route)
  PROVE  /\ Turn(t)
         /\ \/ Len(todo[t]) = 1 /\ todo'[t] = <<>> /\ reply'[t] = 200
            \/ /\ Len(todo[t]) > 1 /\ Len(todo'[t]) = Len(todo[t]) - 1
               /\ Suffix(todo'[t], req[t].route) /\ todo'[t] # <<>> /\ todo'[t] # <<"log">>
               /\ reply' = reply /\ late' = late
  <1>1. CASE Len(todo[t]) = 1
    <2>1. Answer(t, 200) /\ 200 \in Status
      BY <1>1 DEF Proceed, Status
    <2> QED
      BY <1>1, <2>1, AnswerFacts DEF IndInv
  <1>2. CASE Len(todo[t]) # 1
    <2>1. Continue(t, Tail(todo[t]))
      BY <1>2 DEF Proceed
    <2>2. Suffix(Tail(todo[t]), req[t].route) /\ Len(Tail(todo[t])) = Len(todo[t]) - 1
      BY <1>2, SuffixTail
    <2>3. Tail(todo[t]) \in Seq(Access)
      BY <2>2 DEF Suffix
    <2>4. Turn(t) /\ todo'[t] = Tail(todo[t]) /\ reply' = reply /\ late' = late
      BY <2>1, <2>3, ContinueFacts DEF IndInv
    <2>5. Len(todo[t]) \in Nat /\ Len(todo[t]) > 1
      <3>1. PICK n, m \in Nat : n = Len(todo[t]) /\ m = Len(Script[req[t].route])
        BY SuffixHead, ScriptSeq
      <3>2. n \in 1 .. m /\ n # 1
        BY <1>2, <3>1, SuffixHead
      <3>3. n > 1
        BY <3>2
      <3> QED
        BY <3>1, <3>3
    <2>6. todo'[t] # <<>> /\ todo'[t] # <<"log">>
      BY <2>2, <2>4, SuffixHead
    <2> QED
      BY <2>2, <2>4, <2>5, <2>6
  <1> QED
    BY <1>1, <1>2

\* A request is not disturbed by the steps of others, as long as the history of
\* its row is kept.
LEMMA Bystander ==
  ASSUME NEW u \in Thread, RequestInv(u), req'[u] = req[u], todo'[u] = todo[u],
         reply'[u] = reply[u], done'[u] = done[u], noted'[u] = noted[u],
         fate[u] \subseteq fate'[u], writer' = u <=> writer = u,
         Witnessed(u)', Admitted(u)'
  PROVE  RequestInv(u)'
  BY DEF RequestInv, Course, Holding, Entitled, Answered, OnScript, Rightful

LEMMA PlainBystander ==
  ASSUME NEW u \in Thread, RequestInv(u), req'[u] = req[u], todo'[u] = todo[u],
         reply'[u] = reply[u], writer' = u <=> writer = u, u \in late => u \in late',
         done'[u] = done[u], noted'[u] = noted[u], fate'[u] = fate[u],
         UNCHANGED <<sessions, tables>>
  PROVE  RequestInv(u)'
  <1>1. Witnessed(u)'
    BY DEF RequestInv, Witnessed, tables, Rows
  <1>2. Admitted(u)'
    BY DEF RequestInv, Admitted
  <1> QED
    BY <1>1, <1>2, Bystander

\* An exception: the lock is given up and the answer sent.
LEMMA RaiseInd ==
  ASSUME IndInv, NEW t \in Thread, todo[t] # <<>>, NEW e, status_of(e) \in Status, Raise(t, e),
         UNCHANGED <<unlocked, sessions, tables, req, effects>>,
         reply'[t] = status_of(e) => Answered(t)'
  PROVE  IndInv'
  <1>1. Turn(t) /\ todo'[t] = <<>> /\ reply'[t] = status_of(e)
    BY AnswerFacts DEF Raise, IndInv
  <1>2. writer' \in Thread \cup {None} /\ writer' # t /\ \A u \in Thread \ {t} : writer' = u <=> writer = u
    BY MiniVaultAssumption DEF Raise, Release, IndInv, TypeOK
  <1>3. req[t] # None /\ status_of(e) # None
    BY MiniVaultAssumption DEF IndInv, TypeOK, Status
  <1>4. TypeOK'
    BY <1>1, <1>2, <1>3 DEF IndInv, TypeOK, Turn, effects, tables
  <1>5. ASSUME NEW u \in Thread, u # t PROVE RequestInv(u)'
    BY <1>1, <1>2, <1>5, PlainBystander DEF IndInv, Turn, effects
  <1>6. RequestInv(t)'
    <2>1. Course(t)' /\ Holding(t)' /\ Entitled(t)' /\ Admitted(t)'
      BY <1>1, <1>2, <1>3 DEF Course, Holding, Entitled, Admitted, OnScript
    <2>2. Witnessed(t)'
      BY DEF IndInv, RequestInv, Witnessed, Rows, tables, effects
    <2> QED
      BY <1>1, <2>1, <2>2 DEF RequestInv
  <1> QED
    BY <1>4, <1>5, <1>6 DEF IndInv

\* On to the next access.  The caller shows that the lock is held where it should be.
LEMMA ProceedInd ==
  ASSUME IndInv, NEW t \in Thread, OnScript(t), NEW access, At(t, access), Proceed(t),
         UNCHANGED <<unlocked, sessions, tables, req, effects>>,
         writer' \in Thread \cup {None}, \A u \in Thread \ {t} : writer' = u <=> writer = u,
         writer' = t <=> Len(todo[t]) > 1 /\ InTransaction(req[t].route, Len(todo[t]) - 1),
         req[t].route \in OwnKeyRoute => "present" \in fate[t]
  PROVE  IndInv'
  <1>0. PICK n : n = Len(todo[t])
    OBVIOUS
  <1>1. /\ req[t] \in Request /\ req[t].route \in Route /\ reply[t] = None
        /\ Suffix(todo[t], req[t].route) /\ RequestInv(t)
    BY Where DEF IndInv, OnScript
  <1>2. /\ Turn(t)
        /\ \/ n = 1 /\ todo'[t] = <<>> /\ reply'[t] = 200
           \/ /\ n > 1 /\ Len(todo'[t]) = n - 1
              /\ Suffix(todo'[t], req[t].route) /\ todo'[t] # <<>> /\ todo'[t] # <<"log">>
              /\ reply' = reply /\ late' = late
    BY <1>0, <1>1, ProceedFacts
  <1>3. req[t] # None
    BY <1>1, NoneAssumption
  <1>4. 200 # None /\ 200 \notin 400 .. 499 /\ 200 # 403
    BY MiniVaultAssumption
  <1>5. TypeOK'
    <2>1. \A u \in Thread : (req'[u] = None <=> todo'[u] = <<>> /\ reply'[u] = None)
      BY <1>1, <1>2, <1>3, <1>4 DEF IndInv, TypeOK, Turn
    <2> QED
      BY <1>2, <2>1 DEF IndInv, TypeOK, Turn, effects, tables
  <1>6. ASSUME NEW u \in Thread, u # t PROVE RequestInv(u)'
    BY <1>2, <1>6, PlainBystander DEF IndInv, Turn, effects
  <1>7. Rightful(t)'
    BY <1>1 DEF RequestInv, Entitled, Rightful
  <1>8. Witnessed(t)'
    BY <1>1 DEF RequestInv, Witnessed, Rows, tables, effects
  <1>9. CASE n = 1
    <2>1. todo'[t] = <<>> /\ reply'[t] = 200 /\ writer' # t
      BY <1>0, <1>2, <1>9
    <2>2. req[t].item # None /\ req[t].route # "key_create" =>
             req[t].route \in KvRoute \/ req[t].route \in OwnKeyRoute
      BY <1>1, RequestFields DEF KeyRoute, OwnKeyRoute, Route
    <2>3. Answered(t)'
      BY <1>4, <1>7, <2>1, <2>2 DEF Answered, effects, OwnKeyRoute, KvRoute
    <2>4. Course(t)' /\ Holding(t)' /\ Entitled(t)' /\ Admitted(t)'
      BY <1>3, <2>1 DEF Course, Holding, Entitled, Admitted, OnScript
    <2> QED
      BY <1>5, <1>6, <1>8, <2>3, <2>4 DEF IndInv, RequestInv
  <1>10. CASE n # 1
    <2>1. /\ n > 1 /\ Len(todo'[t]) = n - 1 /\ Suffix(todo'[t], req[t].route)
          /\ todo'[t] # <<>> /\ todo'[t] # <<"log">> /\ reply'[t] = None /\ late' = late
      BY <1>1, <1>2, <1>10
    <2>2. ~done[t]
      BY <1>0, <1>1, <1>10 DEF RequestInv, Course, OnScript
    <2>3. Course(t)' /\ Answered(t)'
      BY <2>1, <2>2 DEF Course, OnScript, Answered, effects
    <2>4. Holding(t)'
      BY <1>0, <2>1 DEF Holding, OnScript
    <2>5. Entitled(t)' /\ Admitted(t)'
      BY <1>1, <1>7, <2>1 DEF Entitled, RequestInv, Admitted, OnScript, effects
    <2> QED
      BY <1>5, <1>6, <1>8, <2>3, <2>4, <2>5 DEF IndInv, RequestInv
  <1> QED
    BY <1>9, <1>10

\* What the lock and the looked-up row are at an access that takes neither.
LEMMA SameLock ==
  ASSUME IndInv, NEW t \in Thread, OnScript(t), NEW access, At(t, access),
         access \in {"lookup", "get_dek", "select", "list", "reread"}, UNCHANGED writer
  PROVE  /\ writer' \in Thread \cup {None} /\ \A u \in Thread \ {t} : writer' = u <=> writer = u
         /\ writer' = t <=> Len(todo[t]) > 1 /\ InTransaction(req[t].route, Len(todo[t]) - 1)
         /\ access # "lookup" /\ req[t].route \in OwnKeyRoute => "present" \in fate[t]
  <1>0. PICK n, r : n = Len(todo[t]) /\ r = req[t].route
    OBVIOUS
  <1>1. r \in Route /\ n \in 1 .. Len(Script[r]) /\ access = At_(r, n) /\ Len(Script[r]) \in Nat
    BY <1>0, Where, ScriptSeq DEF OnScript
  <1>2. writer = t <=> InTransaction(r, n)
    BY <1>0 DEF IndInv, RequestInv, Holding
  <1>3. InTransaction(r, n) <=> n > 1 /\ InTransaction(r, n - 1)
    <2>1. CASE access = "get_dek"
      <3>1. n = 1 => ~InTransaction(r, n)
        BY <1>1, <2>1, Places
      <3>2. n > 1 => (InTransaction(r, n) <=> InTransaction(r, n - 1))
        BY <1>1, <2>1, Places
      <3>3. n = 1 \/ n > 1
        BY <1>1
      <3>4. ~(1 > 1)
        OBVIOUS
      <3> QED
        BY <3>1, <3>2, <3>3, <3>4
    <2>2. CASE access \in {"lookup", "select"}
      <3>1. ~InTransaction(r, n)
        BY <1>1, <2>2, Places
      <3>2. ~(n > 1 /\ InTransaction(r, n - 1))
        BY <1>1, <2>2, Places, ScriptTable DEF InTransaction, OwnKeyRoute
      <3> QED
        BY <3>1, <3>2
    <2>3. CASE access \in {"list", "reread"}
      <3>1. n = 1 /\ ~InTransaction(r, n)
        BY <1>1, <2>3, Places
      <3> QED
        BY <3>1
    <2> QED
      BY <2>1, <2>2, <2>3
  <1>4. access # "lookup" /\ r \in OwnKeyRoute => "present" \in fate[t]
    <2> SUFFICES ASSUME access # "lookup", r \in OwnKeyRoute PROVE "present" \in fate[t]
      OBVIOUS
    <2>1. n # Len(Script[r])
      BY <1>1, Places
    <2>2. n < Len(Script[r])
      BY <1>1, <2>1
    <2> QED
      BY <1>0, <2>2 DEF IndInv, RequestInv, Entitled
  <1> QED
    BY <1>0, <1>2, <1>3, <1>4 DEF IndInv, TypeOK

\* Nothing is committed before the last access, the one that reads the row back.
LEMMA Undone ==
  ASSUME IndInv, NEW t \in Thread, NEW access, At(t, access), access # "reread"
  PROVE  ~done[t]
  <1> SUFFICES ASSUME done[t] PROVE FALSE
    OBVIOUS
  <1>1. todo[t] # <<>>
    BY DEF At
  <1>2. OnScript(t) /\ Len(todo[t]) = 1 /\ req[t].route \in {"key_create", "key_rotate"}
    BY <1>1 DEF IndInv, RequestInv, Course
  <1>3. /\ req[t].route \in Route /\ 1 \in 1 .. Len(Script[req[t].route])
        /\ access = At_(req[t].route, 1)
    BY <1>1, <1>2, Where
  <1> QED
    BY <1>2, <1>3, Places

\* Who is past _owned_key has found a key, and if it is not there any more, it was
\* removed meanwhile.
LEMMA PastLookup ==
  ASSUME IndInv, NEW t \in Thread, OnScript(t), NEW access, At(t, access), access # "lookup",
         req[t].route \in OwnKeyRoute
  PROVE  /\ "present" \in fate[t]
         /\ row(req[t]) \notin named_keys => "removed" \in fate[t]
  <1>0. PICK n, r : n = Len(todo[t]) /\ r = req[t].route
    OBVIOUS
  <1>1. /\ r \in Route /\ n \in 1 .. Len(Script[r]) /\ access = At_(r, n) /\ Len(Script[r]) \in Nat
        /\ req[t] \in Request
    BY <1>0, Where, ScriptSeq DEF OnScript
  <1>2. n # Len(Script[r])
    BY <1>0, <1>1, Places
  <1>3. n < Len(Script[r])
    BY <1>1, <1>2
  <1>4. "present" \in fate[t]
    BY <1>0, <1>3 DEF IndInv, RequestInv, Entitled
  <1>5. row(req[t]) \in Rows <=> row(req[t]) \in named_keys
    BY <1>1, RowKinds DEF IndInv, OwnKeyRoute, KeyRoute
  <1>6. req[t] # None /\ req[t].item # None
    BY <1>1, NoneAssumption, RequestFields, MiniVaultAssumption DEF OwnKeyRoute, KeyRoute
  <1> QED
    BY <1>4, <1>5, <1>6 DEF IndInv, RequestInv, Witnessed

\* An exception after the checks, other than a denial.
LEMMA RaiseOnScript ==
  ASSUME IndInv, NEW t \in Thread, OnScript(t), NEW access, At(t, access),
         access \notin {"lookup", "reread"}, NEW e, status_of(e) \in Status \ {403}, Raise(t, e),
         UNCHANGED <<unlocked, sessions, tables, req, effects>>
  PROVE  IndInv'
  <1>1. ~done[t] /\ req[t] \in Request /\ Rightful(t) /\ todo[t] # <<>>
    BY Undone, Where DEF OnScript, IndInv, RequestInv, Entitled
  <1>2. req[t].item # None /\ req[t].route # "key_create" =>
           req[t].route \in KvRoute \/ req[t].route \in OwnKeyRoute
    BY <1>1, RequestFields DEF KeyRoute, OwnKeyRoute, Route
  <1>3. req[t].route \in OwnKeyRoute => "present" \in fate[t] /\ req[t].route \notin KvRoute
    BY PastLookup DEF OwnKeyRoute, KvRoute
  <1>4. reply'[t] = status_of(e) => Answered(t)'
    BY <1>1, <1>2, <1>3 DEF Answered, Rightful, effects
  <1> QED
    BY <1>1, <1>4, RaiseInd

\* The key that is gone: a denial that is not logged.
LEMMA GoneInd ==
  ASSUME IndInv, NEW t \in Thread, OnScript(t), NEW access, At(t, access), access # "lookup",
         req[t].route \in OwnKeyRoute, row(req[t]) \notin named_keys,
         access = "reread" => req[t].route = "key_rotate",
         Raise(t, "KeyUnavailableError"),
         UNCHANGED <<unlocked, sessions, tables, req, effects>>
  PROVE  IndInv'
  <1>1. {"present", "removed"} \subseteq fate[t] /\ Rightful(t) /\ todo[t] # <<>>
    BY PastLookup DEF Rightful, OwnKeyRoute, KvRoute, OnScript
  <1>2. status_of("KeyUnavailableError") = 403 /\ 403 \in Status
    BY StatusTable DEF Status
  <1>3. done[t] => req[t].route = "key_rotate"
    BY Undone
  <1>4. reply'[t] = status_of("KeyUnavailableError") => Answered(t)'
    BY <1>1, <1>2, <1>3 DEF Answered, Rightful, effects
  <1> QED
    BY <1>1, <1>2, <1>4, RaiseInd

LEMMA DbFailsInd ==
  ASSUME IndInv, NEW t \in Thread, DbFails(t)
  PROVE  IndInv'
  <1>1. status_of("OperationalError") = 500 /\ 500 \in Status /\ 500 # 403 /\ 500 \notin 400 .. 499
    BY StatusTable DEF Status
  <1>2. reply'[t] = status_of("OperationalError") => Answered(t)'
    BY <1>1 DEF Answered
  <1> QED
    BY <1>1, <1>2, RaiseInd DEF DbFails

LEMMA GetDekInd ==
  ASSUME IndInv, NEW t \in Thread, GetDek(t)
  PROVE  IndInv'
  <1>1. /\ At(t, "get_dek") /\ OnScript(t)
        /\ UNCHANGED <<unlocked, sessions, tables, req, effects>>
    BY Where DEF GetDek, At
  <1>2. status_of("VaultLockedError") \in Status \ {403} /\ status_of("TransitTamperedError") \in Status \ {403}
    BY StatusTable DEF Status
  <1>3. CASE Raise(t, "VaultLockedError")
    BY <1>1, <1>2, <1>3, RaiseOnScript
  <1>4. CASE Raise(t, "TransitTamperedError")
    BY <1>1, <1>2, <1>4, RaiseOnScript
  <1>5. CASE Proceed(t) /\ UNCHANGED writer
    BY <1>1, <1>5, SameLock, ProceedInd
  <1> QED
    BY <1>3, <1>4, <1>5 DEF GetDek

LEMMA SelectInd ==
  ASSUME IndInv, NEW t \in Thread, Select(t)
  PROVE  IndInv'
  <1>1. /\ At(t, "select") /\ OnScript(t)
        /\ UNCHANGED <<unlocked, sessions, tables, req, effects>>
    BY Where DEF Select, At
  <1>2. /\ status_of("RecordNotFoundError") \in Status \ {403}
        /\ status_of("KeyVersionUnavailableError") \in Status \ {403}
    BY StatusTable DEF Status
  <1>3. CASE Raise(t, "RecordNotFoundError")
    BY <1>1, <1>2, <1>3, RaiseOnScript
  <1>4. CASE Raise(t, "KeyVersionUnavailableError")
    BY <1>1, <1>2, <1>4, RaiseOnScript
  <1>5. CASE Proceed(t) /\ UNCHANGED writer
    BY <1>1, <1>5, SameLock, ProceedInd
  <1> QED
    BY <1>3, <1>4, <1>5 DEF Select

LEMMA ListInd ==
  ASSUME IndInv, NEW t \in Thread, List(t)
  PROVE  IndInv'
  <1>1. /\ At(t, "list") /\ OnScript(t)
        /\ UNCHANGED <<unlocked, sessions, tables, req, effects>>
    BY Where DEF List, At
  <1>2. status_of("KeyVersionUnavailableError") \in Status \ {403}
    BY StatusTable DEF Status
  <1>3. CASE Raise(t, "KeyVersionUnavailableError")
    BY <1>1, <1>2, <1>3, RaiseOnScript
  <1>4. CASE Proceed(t) /\ UNCHANGED writer
    BY <1>1, <1>4, SameLock, ProceedInd
  <1> QED
    BY <1>3, <1>4 DEF List

LEMMA RereadInd ==
  ASSUME IndInv, NEW t \in Thread, Reread(t)
  PROVE  IndInv'
  <1>1. /\ At(t, "reread") /\ OnScript(t) /\ todo[t] # <<>>
        /\ UNCHANGED <<unlocked, sessions, tables, req, effects>>
    BY Where DEF Reread, At
  <1>2. req[t].route \in {"key_create", "key_rotate"}
    BY <1>1, Where, Places
  <1>3. CASE row(req[t]) \in named_keys
    BY <1>1, <1>3, SameLock, ProceedInd DEF Reread
  <1>4. CASE row(req[t]) \notin named_keys /\ req[t].route = "key_rotate"
    <2>1. Raise(t, "KeyUnavailableError")
      BY <1>4 DEF Reread, lost
    <2> QED
      BY <1>1, <1>4, <2>1, GoneInd DEF OwnKeyRoute
  <1>5. CASE row(req[t]) \notin named_keys /\ req[t].route = "key_create"
    <2>1. Raise(t, "RuntimeError")
      BY <1>5 DEF Reread, lost
    <2>2. status_of("RuntimeError") = 500 /\ 500 \in Status /\ 500 # 403 /\ 500 \notin 400 .. 499
      BY StatusTable DEF Status
    <2>3. reply'[t] = status_of("RuntimeError") => Answered(t)'
      BY <2>2 DEF Answered
    <2> QED
      BY <1>1, <2>1, <2>2, <2>3, RaiseInd
  <1> QED
    BY <1>2, <1>3, <1>4, <1>5

LEMMA LookupInd ==
  ASSUME IndInv, NEW t \in Thread, Lookup(t)
  PROVE  IndInv'
  <1>1. /\ At(t, "lookup") /\ OnScript(t) /\ todo[t] # <<>>
        /\ UNCHANGED <<unlocked, sessions, tables, req, effects>>
    BY Where DEF Lookup, At
  <1>2. req[t] \in Request /\ req[t].route \in OwnKeyRoute /\ reply[t] = None /\ req[t] # None
    BY <1>1, Where, Places, NoneAssumption
  <1>3. ~done[t]
    BY <1>1, Undone
  <1>4. row(req[t]) \in named_keys => "present" \in fate[t]
    BY <1>2, RowKinds, RequestFields, MiniVaultAssumption
       DEF IndInv, RequestInv, Witnessed, OwnKeyRoute, KeyRoute
  <1>5. CASE Continue(t, <<"log">>) /\ UNCHANGED writer
    <2>1. <<"log">> \in Seq(Access) /\ <<"log">> # <<>>
      BY DEF Access
    <2>2. Turn(t) /\ todo'[t] = <<"log">> /\ reply' = reply /\ late' = late
      BY <1>5, <2>1, ContinueFacts DEF IndInv
    <2>3. TypeOK'
      BY <1>1, <1>2, <1>5, <2>1, <2>2 DEF IndInv, TypeOK, Turn, effects, tables
    <2>4. ASSUME NEW u \in Thread, u # t PROVE RequestInv(u)'
      BY <1>1, <1>5, <2>2, <2>4, PlainBystander DEF IndInv, Turn, effects
    <2>5. writer # t
      <3>1. PICK n : n = Len(todo[t])
        OBVIOUS
      <3>2. n \in 1 .. Len(Script[req[t].route]) /\ At_(req[t].route, n) = "lookup" /\ req[t].route \in Route
        BY <1>1, <3>1, Where
      <3>3. ~InTransaction(req[t].route, n)
        BY <3>2, Places
      <3> QED
        BY <3>1, <3>3 DEF IndInv, RequestInv, Holding
    <2>6. Course(t)' /\ Holding(t)' /\ Entitled(t)' /\ Answered(t)'
      BY <1>1, <1>2, <1>3, <1>5, <2>1, <2>2, <2>5
         DEF Course, Holding, Entitled, Answered, OnScript, effects
    <2>7. Witnessed(t)' /\ Admitted(t)'
      BY <1>1, <2>2 DEF IndInv, RequestInv, Witnessed, Admitted, Rows, tables, effects
    <2> QED
      BY <2>3, <2>4, <2>6, <2>7 DEF IndInv, RequestInv
  <1>6. CASE row(req[t]) \in named_keys /\ Raise(t, "InvalidKeyUsageError")
    <2>1. status_of("InvalidKeyUsageError") = 400 /\ 400 \in Status /\ 400 # 403
      BY StatusTable DEF Status
    <2>2. reply'[t] = status_of("InvalidKeyUsageError") => Answered(t)'
      BY <1>1, <1>2, <1>3, <1>4, <1>6, <2>1 DEF Answered, effects, OwnKeyRoute, KvRoute
    <2> QED
      BY <1>1, <1>6, <2>1, <2>2, RaiseInd
  <1>7. CASE row(req[t]) \in named_keys /\ Proceed(t) /\ UNCHANGED writer
    BY <1>1, <1>4, <1>7, SameLock, ProceedInd
  <1> QED
    BY <1>5, <1>6, <1>7 DEF Lookup, Deny

LEMMA BeginInd ==
  ASSUME IndInv, NEW t \in Thread, Begin(t)
  PROVE  IndInv'
  <1>0. PICK n, r : n = Len(todo[t]) /\ r = req[t].route
    OBVIOUS
  <1>1. /\ At(t, "begin") /\ OnScript(t) /\ todo[t] # <<>> /\ writer = None
        /\ UNCHANGED <<unlocked, sessions, tables, req, effects>>
    BY Where DEF Begin, At
  <1>2. r \in Route /\ n \in 1 .. Len(Script[r]) /\ At_(r, n) = "begin"
    BY <1>0, <1>1, Where
  <1>3. \/ r = "kv_write" /\ n = 2
        \/ r \in {"key_create", "key_rotate"} /\ n = 4
    BY <1>2, Places
  <1>4. CASE Raise(t, "KeyAlreadyExistsError")
    <2>1. status_of("KeyAlreadyExistsError") \in Status \ {403}
      BY StatusTable DEF Status
    <2> QED
      BY <1>1, <1>4, <2>1, RaiseOnScript
  <1>5. CASE r = "key_rotate" /\ row(req[t]) \notin named_keys /\ Raise(t, "KeyUnavailableError")
    BY <1>0, <1>1, <1>5, GoneInd DEF OwnKeyRoute
  <1>6. CASE writer' = t /\ Proceed(t)
    <2>1. /\ writer' \in Thread \cup {None}
          /\ \A u \in Thread \ {t} : writer' = u <=> writer = u
      BY <1>1, <1>6, MiniVaultAssumption
    <2>2. n > 1 /\ InTransaction(r, n - 1)
      BY <1>3 DEF InTransaction
    <2>3. r \in OwnKeyRoute => "present" \in fate[t]
      BY <1>0, <1>1, PastLookup
    <2> QED
      BY <1>0, <1>1, <1>6, <2>1, <2>2, <2>3, ProceedInd
  <1> QED
    BY <1>0, <1>4, <1>5, <1>6 DEF Begin

\* The denial is logged, then answered.
LEMMA LogInd ==
  ASSUME IndInv, NEW t \in Thread, Log(t)
  PROVE  IndInv'
  <1>1. At(t, "log") /\ todo[t] # <<>> /\ UNCHANGED <<unlocked, sessions, tables, req, done, fate>>
    BY DEF Log, At
  <1>2. req[t] \in Request /\ req[t] # None
    BY <1>1, Where, NoneAssumption
  <1>3. todo[t] = <<"log">>
    <2>1. OnScript(t) => FALSE
      BY <1>1, Where, Places
    <2> QED
      BY <1>1, <2>1 DEF OnScript
  <1>4. req[t].route \in KvRoute \cup OwnKeyRoute /\ ~done[t]
    BY <1>3 DEF IndInv, RequestInv, Course
  <1>5. status_of("PermissionDeniedError") = 403 /\ 403 \in Status /\ 403 # None
    BY StatusTable, MiniVaultAssumption DEF Status
  <1>6. Turn(t) /\ todo'[t] = <<>> /\ reply'[t] = 403
    BY <1>5, AnswerFacts DEF Log, Raise, IndInv
  <1>7. /\ writer' \in Thread \cup {None} /\ writer' # t
        /\ \A u \in Thread \ {t} : writer' = u <=> writer = u
    BY MiniVaultAssumption DEF Log, Raise, Release, IndInv, TypeOK
  <1>8. row(req[t]) \in Row
    BY <1>2, <1>4, RequestFields DEF row, Row, OwnKeyRoute, KeyRoute
  <1>9. /\ noted' \in [Thread -> Row \cup {None}]
        /\ noted'[t] = row(req[t]) /\ \A u \in Thread \ {t} : noted'[u] = noted[u]
    <2>1. PICK x \in Row : x = row(req[t])
      BY <1>8
    <2>2. noted' = [noted EXCEPT ![t] = x]
      BY <2>1 DEF Log
    <2> QED
      BY <2>1, <2>2 DEF IndInv, TypeOK
  <1>10. TypeOK'
    BY <1>1, <1>2, <1>5, <1>6, <1>7, <1>9 DEF IndInv, TypeOK, Turn, tables
  <1>11. ASSUME NEW u \in Thread, u # t PROVE RequestInv(u)'
    BY <1>1, <1>6, <1>7, <1>9, <1>11, PlainBystander DEF IndInv, Turn
  <1>12. Course(t)' /\ Holding(t)' /\ Entitled(t)' /\ Admitted(t)'
    BY <1>1, <1>2, <1>6, <1>7 DEF Course, Holding, Entitled, Admitted, OnScript
  <1>13. Witnessed(t)'
    BY <1>1 DEF IndInv, RequestInv, Witnessed, Rows, tables
  <1>14. Answered(t)'
    BY <1>1, <1>4, <1>6, <1>9 DEF Answered
  <1> QED
    BY <1>10, <1>11, <1>12, <1>13, <1>14 DEF IndInv, RequestInv

-----------------------------------------------------------------------------
(* Steps that change the tables or the sessions                            *)

Asks(u) == req[u] # None /\ req[u].item # None

LEMMA HappensFacts ==
  ASSUME TypeOK, NEW t \in Thread, NEW what \in {"present", "removed"}, Happens(t, what)
  PROVE  /\ fate' \in [Thread -> SUBSET {"present", "removed"}]
         /\ \A u \in Thread : fate[u] \subseteq fate'[u]
         /\ \A u \in Thread : Asks(u) /\ row(req[u]) = row(req[t]) => what \in fate'[u]
         /\ \A u \in Thread : Asks(u) /\ row(req[u]) # row(req[t]) => fate'[u] = fate[u]
  BY DEF TypeOK, Happens, rivals, Asks

\* The history of a row is kept when it appears and when it disappears.
LEMMA AppearWitnessed ==
  ASSUME IndInv, NEW t \in Thread, Happens(t, "present"), Rows' = Rows \cup {row(req[t])},
         NEW u \in Thread, req'[u] = req[u]
  PROVE  Witnessed(u)'
  <1>1. /\ fate[u] \subseteq fate'[u]
        /\ Asks(u) /\ row(req[u]) = row(req[t]) => "present" \in fate'[u]
        /\ Asks(u) /\ row(req[u]) # row(req[t]) => fate'[u] = fate[u]
    BY HappensFacts DEF IndInv
  <1> QED
    BY <1>1 DEF IndInv, RequestInv, Witnessed, Asks, row, user

LEMMA DisappearWitnessed ==
  ASSUME IndInv, NEW t \in Thread, Happens(t, "removed"), Rows' = Rows \ {row(req[t])},
         NEW u \in Thread, req'[u] = req[u]
  PROVE  Witnessed(u)'
  <1>1. /\ fate[u] \subseteq fate'[u]
        /\ Asks(u) /\ row(req[u]) = row(req[t]) => "removed" \in fate'[u]
        /\ Asks(u) /\ row(req[u]) # row(req[t]) => fate'[u] = fate[u]
    BY HappensFacts DEF IndInv
  <1> QED
    BY <1>1 DEF IndInv, RequestInv, Witnessed, Asks, row, user

LEMMA CommitInd ==
  ASSUME IndInv, NEW t \in Thread, Commit(t)
  PROVE  IndInv'
  <1>0. PICK n, r, x : n = Len(todo[t]) /\ r = req[t].route /\ x = row(req[t])
    OBVIOUS
  <1>1. /\ At(t, "commit") /\ OnScript(t) /\ todo[t] # <<>> /\ Happens(t, "present")
        /\ Proceed(t) /\ Release(t) /\ UNCHANGED <<unlocked, sessions, req, noted>>
    BY Where DEF Commit, At
  <1>2. /\ req[t] \in Request /\ r \in Route /\ n \in 1 .. Len(Script[r]) /\ At_(r, n) = "commit"
        /\ reply[t] = None /\ req[t] # None /\ Suffix(todo[t], r)
    BY <1>0, <1>1, Where, NoneAssumption
  <1>3. \/ r = "kv_write" /\ n = 1
        \/ r \in {"key_create", "key_rotate"} /\ n = 2
    BY <1>2, Places
  <1>4. Asks(t) /\ (IF r = "kv_write" THEN x \in User \X Path ELSE x \in User \X Name)
    BY <1>0, <1>2, <1>3, RequestFields, RowKinds, MiniVaultAssumption DEF Asks, IndInv, KvRoute, KeyRoute
  <1>5. /\ kv_records' \subseteq User \X Path /\ named_keys' \subseteq User \X Name
        /\ Rows' = Rows \cup {x}
    BY <1>0, <1>3, <1>4 DEF Commit, Rows, IndInv, TypeOK
  <1>6. writer = t
    BY <1>0, <1>1, <1>3 DEF IndInv, RequestInv, Holding, InTransaction
  <1>7. writer' = None /\ \A u \in Thread : writer' # u
    BY <1>1, <1>6, MiniVaultAssumption DEF Release
  <1>8. /\ Turn(t)
        /\ \/ n = 1 /\ todo'[t] = <<>> /\ reply'[t] = 200
           \/ /\ n > 1 /\ Len(todo'[t]) = n - 1
              /\ Suffix(todo'[t], r) /\ todo'[t] # <<>> /\ todo'[t] # <<"log">>
              /\ reply' = reply /\ late' = late
    BY <1>0, <1>1, <1>2, ProceedFacts
  <1>9. /\ fate' \in [Thread -> SUBSET {"present", "removed"}]
        /\ \A u \in Thread : fate[u] \subseteq fate'[u]
        /\ "present" \in fate'[t]
    BY <1>1, <1>4, HappensFacts DEF IndInv
  <1>10. /\ done' \in [Thread -> BOOLEAN] /\ done'[t] = TRUE
         /\ \A u \in Thread \ {t} : done'[u] = done[u]
    BY DEF Commit, IndInv, TypeOK
  <1>11. 200 # None /\ 200 \notin 400 .. 499 /\ 200 # 403
    BY MiniVaultAssumption
  <1>12. TypeOK'
    <2>1. \A u \in Thread : (req'[u] = None <=> todo'[u] = <<>> /\ reply'[u] = None)
      BY <1>1, <1>2, <1>8, <1>11 DEF IndInv, TypeOK, Turn
    <2>2. todo' \in [Thread -> Seq(Access)] /\ reply' \in [Thread -> Status \cup {None}] /\ late' \subseteq Thread
      BY <1>8 DEF Turn
    <2> QED
      BY <1>1, <1>5, <1>7, <1>9, <1>10, <2>1, <2>2 DEF IndInv, TypeOK
  <1>13. \A u \in Thread : Witnessed(u)'
    BY <1>0, <1>1, <1>5, AppearWitnessed
  <1>14. ASSUME NEW u \in Thread, u # t PROVE RequestInv(u)'
    <2>1. Admitted(u)'
      BY <1>1, <1>8, <1>14 DEF IndInv, RequestInv, Admitted, Turn
    <2>2. req'[u] = req[u] /\ todo'[u] = todo[u] /\ reply'[u] = reply[u] /\ done'[u] = done[u]
      BY <1>1, <1>8, <1>10, <1>14 DEF Turn
    <2>3. noted'[u] = noted[u] /\ fate[u] \subseteq fate'[u] /\ (writer' = u <=> writer = u)
      BY <1>1, <1>6, <1>7, <1>9, <1>14
    <2> QED
      BY <1>13, <2>1, <2>2, <2>3, Bystander DEF IndInv
  <1>15. Rightful(t)'
    BY <1>1 DEF IndInv, RequestInv, Entitled, Rightful
  <1>16. CASE r = "kv_write" /\ n = 1
    <2>1. todo'[t] = <<>> /\ reply'[t] = 200
      BY <1>8, <1>16
    <2>2. Course(t)' /\ Holding(t)' /\ Entitled(t)' /\ Admitted(t)'
      BY <1>1, <1>2, <1>7, <2>1 DEF Course, Holding, Entitled, Admitted, OnScript
    <2>3. Answered(t)'
      BY <1>0, <1>1, <1>11, <1>15, <1>16, <2>1 DEF Answered, KvRoute
    <2> QED
      BY <1>12, <1>13, <1>14, <2>2, <2>3 DEF IndInv, RequestInv
  <1>17. CASE r \in {"key_create", "key_rotate"} /\ n = 2
    <2>1. /\ Len(todo'[t]) = 1 /\ Suffix(todo'[t], r) /\ todo'[t] # <<>> /\ todo'[t] # <<"log">>
          /\ reply'[t] = None /\ late' = late
      BY <1>2, <1>8, <1>17
    <2>2. Course(t)' /\ Answered(t)'
      BY <1>0, <1>1, <1>2, <1>17, <2>1 DEF Course, OnScript, Answered
    <2>3. Holding(t)'
      BY <1>0, <1>1, <1>7, <1>17, <2>1 DEF Holding, OnScript, InTransaction
    <2>4. Entitled(t)' /\ Admitted(t)'
      BY <1>1, <1>9, <1>15, <2>1 DEF Entitled, IndInv, RequestInv, Admitted, OnScript
    <2> QED
      BY <1>12, <1>13, <1>14, <2>2, <2>3, <2>4 DEF IndInv, RequestInv
  <1> QED
    BY <1>3, <1>16, <1>17

LEMMA DeleteInd ==
  ASSUME IndInv, NEW t \in Thread, Delete(t)
  PROVE  IndInv'
  <1>0. PICK n, r, x : n = Len(todo[t]) /\ r = req[t].route /\ x = row(req[t])
    OBVIOUS
  <1>1. At(t, "delete") /\ OnScript(t) /\ todo[t] # <<>> /\ UNCHANGED <<unlocked, sessions, req, noted>>
    BY Where DEF Delete, At
  <1>2. /\ req[t] \in Request /\ r \in Route /\ n \in 1 .. Len(Script[r]) /\ At_(r, n) = "delete"
        /\ req[t] # None /\ Suffix(todo[t], r)
    BY <1>0, <1>1, Where, NoneAssumption
  <1>3. r \in {"kv_delete", "key_revoke"} /\ n = 1
    BY <1>2, Places
  <1>4. CASE x \notin Rows
    <2>1. UNCHANGED <<unlocked, sessions, tables, req, effects>>
      BY <1>0, <1>1, <1>4 DEF Delete, effects
    <2>2. CASE r = "kv_delete"
      <3>1. Raise(t, "RecordNotFoundError") /\ status_of("RecordNotFoundError") \in Status \ {403}
        BY <1>0, <1>4, <2>2, StatusTable DEF Delete, Status
      <3> QED
        BY <1>1, <2>1, <3>1, RaiseOnScript
    <2>3. CASE r = "key_revoke"
      <3>1. Raise(t, "KeyUnavailableError") /\ row(req[t]) \notin named_keys
        BY <1>0, <1>4, <2>3 DEF Delete, Rows
      <3> QED
        BY <1>0, <1>1, <2>1, <2>3, <3>1, GoneInd DEF OwnKeyRoute
    <2> QED
      BY <1>3, <2>2, <2>3
  <1>5. CASE x \in Rows
    <2>1. /\ kv_records' = kv_records \ {x} /\ named_keys' = named_keys \ {x}
          /\ Happens(t, "removed") /\ Proceed(t) /\ UNCHANGED writer
          /\ done' = [done EXCEPT ![t] = TRUE]
      BY <1>0, <1>5 DEF Delete
    <2>2. /\ kv_records' \subseteq User \X Path /\ named_keys' \subseteq User \X Name
          /\ Rows' = Rows \ {x}
      BY <2>1 DEF Rows, IndInv, TypeOK
    <2>3. Turn(t) /\ todo'[t] = <<>> /\ reply'[t] = 200
      <3>1. Len(todo[t]) = 1 /\ ~(1 > 1) /\ OnScript(t) /\ Suffix(todo[t], req[t].route) /\ req[t].route \in Route
        BY <1>0, <1>1, <1>2, <1>3
      <3> QED
        BY <2>1, <3>1, ProceedFacts
    <2>4. /\ fate' \in [Thread -> SUBSET {"present", "removed"}]
          /\ \A u \in Thread : fate[u] \subseteq fate'[u]
      BY <2>1, HappensFacts DEF IndInv
    <2>5. /\ done' \in [Thread -> BOOLEAN]
          /\ \A u \in Thread \ {t} : done'[u] = done[u]
      BY <2>1 DEF IndInv, TypeOK
    <2>6. 200 # None /\ 200 \notin 400 .. 499 /\ 200 # 403
      BY MiniVaultAssumption
    <2>7. TypeOK'
      BY <1>1, <1>2, <2>1, <2>2, <2>3, <2>4, <2>5, <2>6 DEF IndInv, TypeOK, Turn
    <2>8. \A u \in Thread : Witnessed(u)'
      BY <1>0, <1>1, <2>1, <2>2, DisappearWitnessed
    <2>9. ASSUME NEW u \in Thread, u # t PROVE RequestInv(u)'
      <3>1. Admitted(u)'
        BY <1>1, <2>3, <2>9 DEF IndInv, RequestInv, Admitted, Turn
      <3>2. req'[u] = req[u] /\ todo'[u] = todo[u] /\ reply'[u] = reply[u] /\ done'[u] = done[u]
        BY <1>1, <2>3, <2>5, <2>9 DEF Turn
      <3>3. noted'[u] = noted[u] /\ fate[u] \subseteq fate'[u] /\ (writer' = u <=> writer = u)
        BY <1>1, <2>1, <2>4
      <3> QED
        BY <2>8, <3>1, <3>2, <3>3, Bystander DEF IndInv
    <2>10. writer' # t
      <3>1. ~InTransaction(r, n)
        BY <1>3 DEF InTransaction
      <3> QED
        BY <1>0, <2>1, <3>1 DEF IndInv, RequestInv, Holding
    <2>11. Course(t)' /\ Holding(t)' /\ Entitled(t)' /\ Admitted(t)'
      BY <1>1, <1>2, <2>3, <2>10 DEF Course, Holding, Entitled, Admitted, OnScript
    <2>12. Rightful(t)' /\ (r = "key_revoke" => "present" \in fate'[t])
      <3>1. r = "key_revoke" => "present" \in fate[t]
        BY <1>0, <1>1, PastLookup DEF OwnKeyRoute
      <3> QED
        BY <1>1, <2>4, <3>1 DEF IndInv, RequestInv, Entitled, Rightful
    <2>13. Answered(t)'
      BY <1>0, <1>1, <1>3, <2>3, <2>6, <2>12 DEF Answered, KvRoute
    <2> QED
      BY <2>7, <2>8, <2>9, <2>11, <2>13 DEF IndInv, RequestInv
  <1> QED
    BY <1>4, <1>5

LEMMA RevokeInd ==
  ASSUME IndInv, NEW t \in Thread, Revoke(t)
  PROVE  IndInv'
  <1>0. PICK k : k = req[t].token
    OBVIOUS
  <1>1. /\ At(t, "revoke") /\ OnScript(t) /\ todo[t] # <<>> /\ writer = None
        /\ UNCHANGED <<unlocked, writer, tables, req, noted, fate>>
    BY Where DEF Revoke, At
  <1>2. /\ req[t] \in Request /\ req[t] # None /\ req[t].route = "logout" /\ req[t].item = None
        /\ k \in Token
    BY <1>0, <1>1, Where, Places, NoneAssumption, RequestFields DEF KvRoute, KeyRoute
  <1>3. 200 # None /\ 200 \in Status /\ 200 \notin 400 .. 499 /\ 200 # 403 /\ <<>> \in Seq(Access)
    BY MiniVaultAssumption DEF Status
  <1>4. /\ todo' = [todo EXCEPT ![t] = <<>>] /\ reply' = [reply EXCEPT ![t] = 200]
        /\ done' = [done EXCEPT ![t] = TRUE] /\ sessions' = [sessions EXCEPT ![k] = "ended"]
        /\ late' = outliving(k) \ {t}
    BY <1>0 DEF Revoke
  <1>5. /\ todo' \in [Thread -> Seq(Access)] /\ reply' \in [Thread -> Status \cup {None}]
        /\ todo'[t] = <<>> /\ reply'[t] = 200
        /\ \A u \in Thread \ {t} : todo'[u] = todo[u] /\ reply'[u] = reply[u] /\ done'[u] = done[u]
    BY <1>3, <1>4 DEF IndInv, TypeOK
  <1>6. TypeOK'
    <2>1. \A u \in Thread : (req'[u] = None <=> todo'[u] = <<>> /\ reply'[u] = None)
      <3>1. \A u \in Thread : (req[u] = None <=> todo[u] = <<>> /\ reply[u] = None)
        BY DEF IndInv, TypeOK
      <3> QED
        BY <1>1, <1>2, <1>3, <1>5, <3>1
    <2>2. late' \subseteq Thread
      BY <1>4 DEF outliving, IndInv, TypeOK
    <2>3. sessions' \in [Token -> {"none", "active", "ended"}] /\ done' \in [Thread -> BOOLEAN]
      BY <1>4 DEF IndInv, TypeOK
    <2> QED
      BY <1>1, <1>5, <2>1, <2>2, <2>3 DEF IndInv, TypeOK, tables
  <1>7. \A u \in Thread : Witnessed(u)'
    BY <1>1 DEF IndInv, RequestInv, Witnessed, tables, Rows
  <1>8. ASSUME NEW u \in Thread, u # t PROVE RequestInv(u)'
    <2>1. Admitted(u)'
      BY <1>1, <1>4, <1>5, <1>8 DEF IndInv, TypeOK, RequestInv, Admitted, outliving
    <2> QED
      BY <1>1, <1>5, <1>7, <1>8, <2>1, Bystander DEF IndInv
  <1>9. Course(t)' /\ Holding(t)' /\ Entitled(t)' /\ Admitted(t)' /\ Answered(t)'
    BY <1>1, <1>2, <1>3, <1>5, MiniVaultAssumption DEF Course, Holding, Entitled, Admitted, OnScript, Answered
  <1> QED
    BY <1>6, <1>7, <1>8, <1>9 DEF IndInv, RequestInv

LEMMA ReturnInd ==
  ASSUME IndInv, NEW t \in Thread, Return(t)
  PROVE  IndInv'
  <1>1. /\ reply[t] # None /\ todo[t] = <<>>
        /\ UNCHANGED <<unlocked, writer, sessions, tables, todo, late>>
    BY DEF Return, IndInv, RequestInv, Course
  <1>2. /\ req'[t] = None /\ reply'[t] = None /\ done'[t] = FALSE /\ noted'[t] = None /\ fate'[t] = {}
        /\ \A u \in Thread \ {t} : /\ req'[u] = req[u] /\ reply'[u] = reply[u] /\ done'[u] = done[u]
                                   /\ noted'[u] = noted[u] /\ fate'[u] = fate[u]
    BY DEF Return, IndInv, TypeOK
  <1>3. TypeOK'
    <2>1. \A u \in Thread : (req'[u] = None <=> todo'[u] = <<>> /\ reply'[u] = None)
      BY <1>1, <1>2 DEF IndInv, TypeOK
    <2> QED
      BY <1>1, <2>1 DEF Return, IndInv, TypeOK, tables
  <1>4. ASSUME NEW u \in Thread, u # t PROVE RequestInv(u)'
    BY <1>1, <1>2, <1>4, PlainBystander DEF IndInv
  <1>5. RequestInv(t)'
    <2>1. writer' # t
      BY <1>1 DEF IndInv, RequestInv, Holding, OnScript
    <2>2. todo'[t] = <<>> /\ ~done'[t]
      BY <1>1, <1>2
    <2> QED
      BY <1>2, <2>1, <2>2 DEF RequestInv, Course, Holding, Entitled, Witnessed, Answered, Admitted, OnScript
  <1> QED
    BY <1>3, <1>4, <1>5 DEF IndInv

LEMMA ArriveInd ==
  ASSUME IndInv, NEW t \in Thread, NEW r \in Request, Arrive(t, r)
  PROVE  IndInv'
  <1>1. /\ req[t] = None /\ req' = [req EXCEPT ![t] = r]
        /\ UNCHANGED <<unlocked, writer, sessions, tables, done, noted>>
        /\ fate' = [fate EXCEPT ![t] = present(r)]
    BY DEF Arrive
  <1>2. todo[t] = <<>> /\ reply[t] = None /\ ~done[t] /\ writer # t
    BY <1>1 DEF IndInv, TypeOK, RequestInv, Course, Holding, OnScript
  <1>3. /\ req'[t] = r /\ r # None /\ fate'[t] = present(r)
        /\ \A u \in Thread \ {t} : req'[u] = req[u] /\ fate'[u] = fate[u]
        /\ req' \in [Thread -> Request \cup {None}]
        /\ fate' \in [Thread -> SUBSET {"present", "removed"}]
    BY <1>1, NoneAssumption DEF IndInv, TypeOK, present
  <1>4. Witnessed(t)'
    BY <1>1, <1>3 DEF Witnessed, present, Rows, tables, row, user
  <1>5. r.route \in Route /\ r.token \in Token /\ (~authorized(r) => r.route \in KvRoute)
    BY RequestFields DEF authorized
  <1>6. ASSUME Turn(t), todo'[t] # <<>> \/ reply'[t] # None,
               Course(t)', Holding(t)', Entitled(t)', Answered(t)', Admitted(t)'
        PROVE  IndInv'
    <2>1. \A u \in Thread : (req'[u] = None <=> todo'[u] = <<>> /\ reply'[u] = None)
      <3>1. \A u \in Thread : (req[u] = None <=> todo[u] = <<>> /\ reply[u] = None)
        BY DEF IndInv, TypeOK
      <3> QED
        BY <1>3, <1>6, <3>1 DEF Turn
    <2>2. TypeOK'
      BY <1>1, <1>3, <1>6, <2>1 DEF IndInv, TypeOK, Turn, tables
    <2>3. ASSUME NEW u \in Thread, u # t PROVE RequestInv(u)'
      BY <1>1, <1>3, <1>6, <2>3, PlainBystander DEF IndInv, Turn
    <2> QED
      BY <1>4, <1>6, <2>2, <2>3 DEF IndInv, RequestInv
  <1>7. CASE Answer(t, status_of("UnauthenticatedError"))
    <2>1. status_of("UnauthenticatedError") = 401 /\ 401 \in Status /\ 401 # None /\ 401 # 403
      BY StatusTable, MiniVaultAssumption DEF Status
    <2>2. Turn(t) /\ todo'[t] = <<>> /\ reply'[t] = 401
      BY <1>7, <2>1, AnswerFacts DEF IndInv
    <2>3. Course(t)' /\ Holding(t)' /\ Entitled(t)' /\ Admitted(t)'
      BY <1>1, <1>2, <1>3, <2>2 DEF Course, Holding, Entitled, Admitted, OnScript
    <2>4. Answered(t)'
      BY <1>1, <1>2, <2>1, <2>2 DEF Answered
    <2> QED
      BY <1>6, <2>1, <2>2, <2>3, <2>4
  <1>8. CASE admitted(r.token) /\ authorized(r) /\ Continue(t, Script[r.route])
    <2>1. /\ Script[r.route] \in Seq(Access) /\ Suffix(Script[r.route], r.route)
          /\ Script[r.route] # <<>> /\ Script[r.route] # <<"log">> /\ Len(Script[r.route]) \in Nat
      <3>1. Script[r.route] \in Seq(Access) /\ Suffix(Script[r.route], r.route)
        BY <1>5, ScriptSeq, WholeScript
      <3>2. Len(Script[r.route]) \in Nat
        BY <3>1
      <3> QED
        BY <1>5, <3>1, <3>2, SuffixHead
    <2>2. Turn(t) /\ todo'[t] = Script[r.route] /\ reply'[t] = None /\ late' = late
      BY <1>2, <1>8, <2>1, ContinueFacts DEF IndInv
    <2>3. Course(t)' /\ Answered(t)' /\ Admitted(t)'
      BY <1>1, <1>2, <1>3, <1>8, <2>1, <2>2 DEF Course, OnScript, Answered, Admitted, admitted
    <2>4. Holding(t)'
      <3>1. PICK n : n = Len(Script[r.route])
        OBVIOUS
      <3>2. ~InTransaction(r.route, n)
        BY <1>5, <3>1, ScriptTable DEF InTransaction
      <3> QED
        BY <1>1, <1>2, <1>3, <2>2, <3>1, <3>2 DEF Holding
    <2>5. Entitled(t)'
      BY <1>3, <1>8, <2>1, <2>2 DEF Entitled, Rightful, authorized, user
    <2> QED
      BY <1>6, <2>1, <2>2, <2>3, <2>4, <2>5
  <1>9. CASE admitted(r.token) /\ ~authorized(r) /\ Continue(t, <<"log">>)
    <2>1. <<"log">> \in Seq(Access) /\ <<"log">> # <<>>
      BY DEF Access
    <2>2. Turn(t) /\ todo'[t] = <<"log">> /\ reply'[t] = None /\ late' = late
      BY <1>2, <1>9, <2>1, ContinueFacts DEF IndInv
    <2>3. Course(t)' /\ Holding(t)' /\ Entitled(t)' /\ Answered(t)' /\ Admitted(t)'
      BY <1>1, <1>2, <1>3, <1>5, <1>9, <2>1, <2>2
         DEF Course, Holding, Entitled, OnScript, Answered, Admitted, admitted
    <2> QED
      BY <1>6, <2>1, <2>2, <2>3
  <1> QED
    BY <1>7, <1>8, <1>9 DEF Arrive, Deny

LEMMA EnvironmentInd ==
  ASSUME IndInv,
         \/ \E k \in Token : Login(k) \/ Expire(k)
         \/ \E b \in BOOLEAN : SetUnlocked(b)
         \/ Restart \/ UNCHANGED vars
  PROVE  IndInv'
  <1>1. ASSUME NEW k \in Token, Login(k) \/ Expire(k) PROVE IndInv'
    <2>1. UNCHANGED <<unlocked, writer, tables, req, todo, reply, effects>>
      BY <1>1 DEF Login, Expire, course
    <2>2. TypeOK'
      BY <1>1, <2>1 DEF Login, Expire, course, outliving, IndInv, TypeOK, effects, tables
    <2>3. ASSUME NEW u \in Thread PROVE RequestInv(u)'
      <3>1. Witnessed(u)'
        BY <2>1 DEF IndInv, RequestInv, Witnessed, tables, Rows, effects
      <3>2. Admitted(u)'
        <4> SUFFICES ASSUME todo[u] # <<>>, sessions'[req[u].token] # "active" PROVE u \in late'
          BY <2>1 DEF Admitted
        <4>1. req[u].token \in Token
          BY RequestFields DEF IndInv, TypeOK
        <4>2. sessions[req[u].token] # "active" => u \in late
          BY DEF IndInv, RequestInv, Admitted
        <4>3. CASE Login(k)
          BY <4>1, <4>2, <4>3 DEF Login, course, IndInv, TypeOK
        <4>4. CASE Expire(k)
          BY <4>1, <4>2, <4>4 DEF Expire, outliving, IndInv, TypeOK
        <4> QED
          BY <1>1, <4>3, <4>4
      <3> QED
        BY <2>1, <3>1, <3>2, Bystander DEF IndInv, effects
    <2> QED
      BY <2>2, <2>3 DEF IndInv
  <1>2. CASE (\E b \in BOOLEAN : SetUnlocked(b)) \/ UNCHANGED vars
    <2>1. UNCHANGED <<writer, sessions, tables, course, effects>>
      BY <1>2 DEF SetUnlocked, vars
    <2>2. TypeOK'
      BY <1>2, <2>1 DEF SetUnlocked, vars, course, effects, tables, IndInv, TypeOK
    <2> QED
      BY <2>1, <2>2, PlainBystander DEF IndInv, course, effects
  <1>3. CASE Restart
    <2>1. TypeOK'
      <3>1. <<>> \in Seq(Access)
        OBVIOUS
      <3> QED
        BY <1>3, <3>1 DEF Restart, IndInv, TypeOK, tables
    <2>2. ASSUME NEW u \in Thread PROVE RequestInv(u)'
      BY <1>3, MiniVaultAssumption DEF Restart, RequestInv, Course, Holding, Entitled, Witnessed,
         Answered, Admitted, OnScript
    <2> QED
      BY <2>1, <2>2 DEF IndInv
  <1> QED
    BY <1>1, <1>2, <1>3

-----------------------------------------------------------------------------
(* Theorems                                                                *)

\* Every step preserves the inductive invariant.
LEMMA NextInd ==
  ASSUME IndInv, [Next]_vars
  PROVE  IndInv'
  <1>1. ASSUME NEW t \in Thread, (\E r \in Request : Arrive(t, r)) \/ Step(t) PROVE IndInv'
    BY <1>1, ArriveInd, LogInd, LookupInd, GetDekInd, SelectInd, ListInd, BeginInd, CommitInd,
       RereadInd, DeleteInd, RevokeInd, DbFailsInd, ReturnInd DEF Step
  <1> QED
    BY <1>1, EnvironmentInd DEF Next

\* The inductive invariant holds throughout.
LEMMA IndAlways == Spec => []IndInv
  <1>1. IndInv /\ [Next]_vars => IndInv'
    BY NextInd
  <1> QED
    BY InitInd, <1>1, PTL DEF Spec

\* In every execution, no response but 401, 403 and 500 reaches who asks for a path
\* of somebody else or for a key that was not there: the checks of _authorize and
\* _owned_key come before require_unlocked and every other access that can fail.
THEOREM NoResponseIsAnOracle == Spec => []NoOracle
  <1>1. IndInv => NoOracle
    BY DEF IndInv, RequestInv, Answered, NoOracle
  <1> QED
    BY IndAlways, <1>1, PTL

\* In every execution, a 403 stands in the audit log, unless the caller's own key
\* was revoked while the request ran.
THEOREM DenialsAreLogged == Spec => []DenialsLogged
  <1>1. IndInv => DenialsLogged
    <2>1. 403 # None
      BY MiniVaultAssumption
    <2> QED
      BY <2>1 DEF IndInv, RequestInv, Answered, DenialsLogged
  <1> QED
    BY IndAlways, <1>1, PTL

\* In every execution, a request answered with a 4xx has committed nothing, except
\* for a rotation whose key was revoked before it was read back.
THEOREM RefusedIsUndone == Spec => []RefusedMeansUndone
  <1>1. IndInv => RefusedMeansUndone
    BY DEF IndInv, RequestInv, Answered, RefusedMeansUndone
  <1> QED
    BY IndAlways, <1>1, PTL

\* In every execution, whoever holds SQLite's write lock goes on to COMMIT or to an
\* error without a second transaction, so that no request waits for itself.
THEOREM TransactionsAreNotNested == Spec => []NoNestedTransaction
  <1>1. IndInv => NoNestedTransaction
    <2> SUFFICES ASSUME IndInv, NEW t \in Thread, writer = t
                 PROVE  todo[t] # <<>> /\ Head(todo[t]) \in {"get_dek", "commit"}
      BY DEF NoNestedTransaction, IndInv
    <2>1. PICK n, r : n = Len(todo[t]) /\ r = req[t].route
      OBVIOUS
    <2>2. OnScript(t) /\ InTransaction(r, n) /\ todo[t] # <<>>
      BY <2>1 DEF IndInv, RequestInv, Holding, OnScript
    <2>3. r \in Route /\ n \in 1 .. Len(Script[r]) /\ Head(todo[t]) = At_(r, n)
      BY <2>1, <2>2, Where DEF At
    <2> QED
      BY <2>2, <2>3, Places
  <1> QED
    BY IndAlways, <1>1, PTL

\* In every execution, a request still at work whose session has ended was let in
\* before: get_current_user admits nobody after logout or expiry.
THEOREM OnlyTheAdmittedFinish == Spec => []OnlyAdmittedFinish
  <1>1. IndInv => OnlyAdmittedFinish
    BY DEF IndInv, RequestInv, Admitted, OnlyAdmittedFinish
  <1> QED
    BY IndAlways, <1>1, PTL

\* In every execution, a record or key is made or removed by a request of its owner.
THEOREM OnlyTheOwnerChanges == Spec => OnlyOwnerChanges
  <1>1. ASSUME IndInv, [Next]_vars, NEW x \in (Rows \ Rows') \cup (Rows' \ Rows)
        PROVE  \E t \in Thread : /\ req[t] # None /\ row(req[t]) = x /\ Rightful(t)
                                 /\ todo'[t] # todo[t]
    <2>1. PICK t \in Thread : Commit(t) \/ Delete(t)
      BY <1>1 DEF Next, Step, Arrive, Log, Lookup, GetDek, Select, List, Begin, Reread, Revoke, DbFails,
         Return, Login, Expire, SetUnlocked, Restart, vars, tables, Rows
    <2>2. row(req[t]) = x /\ Proceed(t)
      BY <1>1, <2>1 DEF Commit, Delete, Rows, tables
    <2>3. OnScript(t) /\ req[t] # None /\ todo[t] # <<>> /\ Suffix(todo[t], req[t].route) /\ req[t].route \in Route
      <3>1. PICK access \in {"commit", "delete"} : At(t, access)
        BY <2>1 DEF Commit, Delete
      <3> QED
        BY <1>1, <3>1, Where, NoneAssumption DEF At
    <2>4. todo'[t] # todo[t]
      <3>1. todo'[t] = <<>> \/ Len(todo'[t]) = Len(todo[t]) - 1
        BY <1>1, <2>2, <2>3, ProceedFacts
      <3>2. Len(todo[t]) \in Nat
        BY <2>3 DEF Suffix
      <3> QED
        BY <2>3, <3>1, <3>2
    <2> QED
      BY <1>1, <2>2, <2>3, <2>4 DEF IndInv, RequestInv, Entitled
  <1>2. IndInv /\ [Next]_vars =>
           [\A r \in (Rows \ Rows') \cup (Rows' \ Rows) :
               \E t \in Thread : /\ req[t] # None /\ row(req[t]) = r
                                 /\ Rightful(t)
                                 /\ todo'[t] # todo[t]]_vars
    BY <1>1
  <1> QED
    BY IndAlways, <1>2, PTL DEF Spec, OnlyOwnerChanges
=============================================================================
