------------------------------ MODULE KeyStore ------------------------------
(***************************************************************************)
(* What the transit engine promises its callers.  A slot, an owner and a   *)
(* name, holds the materials of its key, oldest first.  A call works with  *)
(* the materials its slot held when it arrived; verify may find that they  *)
(* have changed since.  Changes are atomic.  A refused call has used no    *)
(* material, and at most a create or rotation that had already happened is *)
(* refused all the same; after a crash a caller does not know.             *)
(***************************************************************************)
EXTENDS Naturals, Sequences

CONSTANTS
    Thread,     \* concurrent requests
    KeySlot,    \* pairs of an owner and a name
    Material,   \* key material
    MaxVersion, \* bound on the versions of a key
    None

\* A call; what decrypt and verify are given was made with some material, and a
\* verify names a version, or 0 for any.
Changing == {"create", "rotate", "revoke"}
Call ==
    [op : Changing \cup {"encrypt", "sign"}, slot : KeySlot]
    \cup [op : {"decrypt"}, slot : KeySlot, made : Material]
    \cup [op : {"verify"}, slot : KeySlot, made : Material, pinned : 0 .. MaxVersion]

Done    == [result |-> "done"]
Refused == [result |-> "refused"]

VARIABLES
    keys,    \* keys[s]: the materials of the key in slot s, <<>> without one
    drawn,   \* all material ever given to a key
    call,    \* call[t]: the call request t is executing, or None
    seen,    \* seen[t]: what its slot held when it arrived
    changed, \* changed[t]: whether a create or rotation has happened
    answer   \* answer[t]: what request t was told

vars == <<keys, drawn, call, seen, changed, answer>>

Init ==
    /\ keys = [s \in KeySlot |-> <<>>]
    /\ drawn = {}
    /\ call    = [t \in Thread |-> None]
    /\ seen    = [t \in Thread |-> <<>>]
    /\ changed = [t \in Thread |-> FALSE]
    /\ answer  = [t \in Thread |-> None]

\* What a call that changes nothing is told by the materials h.
Outcomes(c, h) ==
    IF c.op \in {"encrypt", "sign"}
    THEN {[result |-> "issued", material |-> h[i]] : i \in DOMAIN h \cap {Len(h)}}
    ELSE IF c.op = "decrypt"
    THEN {[result |-> "plaintext", material |-> m] : m \in {h[i] : i \in DOMAIN h} \cap {c.made}}
    ELSE IF \E i \in DOMAIN h : h[i] = c.made /\ c.pinned \in {0, i}
    THEN {[result |-> "valid", material |-> c.made]}
    ELSE {[result |-> "invalid"]}

\* What it finds, a reading call remembers.
Arrive(t) ==
    LET c == call'[t] IN
    /\ call[t] = None
    /\ c \in Call
    /\ call' = [call EXCEPT ![t] = c]
    /\ seen' = [seen EXCEPT ![t] = IF c.op \in Changing THEN <<>> ELSE keys[c.slot]]
    /\ answer' = [answer EXCEPT ![t] = None]
    /\ UNCHANGED <<keys, drawn, changed>>

\* A create makes a key where there is none, a rotation adds to one; both with
\* material that was never used before.
Extend(t) ==
    LET s == call[t].slot IN
    /\ call[t] # None
    /\ ~changed[t]
    /\ \/ call[t].op = "create" /\ keys[s] = <<>>
       \/ call[t].op = "rotate" /\ keys[s] # <<>>
    /\ \E m \in Material \ drawn :
          /\ keys' = [keys EXCEPT ![s] = Append(@, m)]
          /\ drawn' = drawn \cup {m}
    /\ changed' = [changed EXCEPT ![t] = TRUE]
    /\ UNCHANGED <<call, seen, answer>>

Told(t, a) == answer' = [answer EXCEPT ![t] = a]

\* A revocation is answered in the step that takes all materials away.
Revoke(t) ==
    LET s == call[t].slot IN
    /\ call[t].op = "revoke"
    /\ keys[s] # <<>>
    /\ Told(t, Done)
    /\ keys' = [keys EXCEPT ![s] = <<>>]
    /\ UNCHANGED drawn

Return(t) ==
    LET c == call[t] IN
    /\ \/ c.op \in Changing /\ changed[t] /\ Told(t, Done)
       \/ c.op \notin Changing /\ \E a \in Outcomes(c, seen[t]) : Told(t, a)
       \/ c.op = "verify" /\ \E a \in Outcomes(c, keys[c.slot]) : Told(t, a)
    /\ UNCHANGED <<keys, drawn>>

Refuse(t) == Told(t, Refused) /\ UNCHANGED <<keys, drawn>>

\* The call of a request ends.
Finish(t) ==
    /\ call[t] # None
    /\ call' = [call EXCEPT ![t] = None]
    /\ seen' = [seen EXCEPT ![t] = <<>>]
    /\ changed' = [changed EXCEPT ![t] = FALSE]
    /\ Revoke(t) \/ Return(t) \/ Refuse(t)

Crash ==
    /\ call'    = [t \in Thread |-> None]
    /\ seen'    = [t \in Thread |-> <<>>]
    /\ changed' = [t \in Thread |-> FALSE]
    /\ answer'  = [t \in Thread |-> None]
    /\ UNCHANGED <<keys, drawn>>

Next == (\E t \in Thread : Arrive(t) \/ Extend(t) \/ Finish(t)) \/ Crash

Spec == Init /\ [][Next]_vars
=============================================================================
