------------------------------ MODULE KvStore ------------------------------
(***************************************************************************)
(* What the KV engine promises its callers: every path has a history of    *)
(* versions, and each request that is answered took effect on that history *)
(* atomically, once, somewhere between its arrival and its answer.  A      *)
(* refused request had no effect; after a crash a caller does not know.    *)
(***************************************************************************)
EXTENDS Naturals, Sequences

CONSTANTS
    Thread,   \* concurrent requests
    Path,     \* KV paths
    Data,     \* values
    MaxVersion, \* bound on the length of a history
    None

\* A call as KvService receives it once the caller owns the path.  A read
\* names a version, or 0 for the current one.
Call ==
    [op : {"write"}, path : Path, data : Data]
    \cup [op : {"read"}, path : Path, version : 0 .. MaxVersion]
    \cup [op : {"versions", "delete"}, path : Path]

NotFound == [result |-> "NOT_FOUND"]
Refused  == [result |-> "refused"]

VARIABLES
    hist,    \* hist[p]: the values written to p since it last did not exist
    call,    \* call[t]: the call request t is executing, or None
    seen,    \* seen[t]: the outcome, fixed when the call took effect
    answer   \* answer[t]: what request t was told

vars == <<hist, call, seen, answer>>

Init ==
    /\ hist = [p \in Path |-> <<>>]
    /\ call = [t \in Thread |-> None]
    /\ seen = [t \in Thread |-> None]
    /\ answer = [t \in Thread |-> None]

Invoke(t) ==
    /\ call[t] = None
    /\ \E c \in Call : call' = [call EXCEPT ![t] = c]
    /\ answer' = [answer EXCEPT ![t] = None]
    /\ UNCHANGED <<hist, seen>>

\* The call takes effect: h is the history of its path before, and ReadAt what
\* a read of that history returns.
ReadAt(h, v) ==
    LET n == IF v = 0 THEN Len(h) ELSE v IN
    IF n \in 1 .. Len(h)
    THEN [result |-> "ok", data |-> h[n], version |-> n, latest |-> Len(h)]
    ELSE NotFound

Effect(t) ==
    LET c == call[t]
        h == hist[c.path]
        Becomes(new, outcome) ==
            /\ hist' = [hist EXCEPT ![c.path] = new]
            /\ seen' = [seen EXCEPT ![t] = outcome]
    IN  /\ call[t] # None
        /\ seen[t] = None
        /\ \/ /\ c.op = "write"
              /\ Becomes(Append(h, c.data),
                         [result |-> "written", version |-> Len(h) + 1])
           \/ /\ c.op = "read"
              /\ Becomes(h, ReadAt(h, c.version))
           \/ /\ c.op = "versions"
              /\ Becomes(h, IF h = <<>> THEN NotFound
                            ELSE [result |-> "history", latest |-> Len(h),
                                  versions |-> 1 .. Len(h)])
           \/ /\ c.op = "delete"
              /\ Becomes(<<>>, IF h = <<>> THEN NotFound ELSE [result |-> "deleted"])
        /\ UNCHANGED <<call, answer>>

Return(t) ==
    /\ call[t] # None
    /\ seen[t] # None
    /\ answer' = [answer EXCEPT ![t] = seen[t]]
    /\ call' = [call EXCEPT ![t] = None]
    /\ seen' = [seen EXCEPT ![t] = None]
    /\ UNCHANGED hist

\* Only a call without effect may be refused: one that has not happened, or a
\* read whose row can no longer be decrypted because the vault was locked.
Refuse(t) ==
    /\ call[t] # None
    /\ seen[t] = None \/ call[t].op = "read"
    /\ answer' = [answer EXCEPT ![t] = Refused]
    /\ call' = [call EXCEPT ![t] = None]
    /\ seen' = [seen EXCEPT ![t] = None]
    /\ UNCHANGED hist

Crash ==
    /\ call' = [t \in Thread |-> None]
    /\ seen' = [t \in Thread |-> None]
    /\ answer' = [t \in Thread |-> None]
    /\ UNCHANGED hist

Next == (\E t \in Thread : Invoke(t) \/ Effect(t) \/ Return(t) \/ Refuse(t)) \/ Crash

Spec == Init /\ [][Next]_vars
=============================================================================
