--------------------------- MODULE TelegramForms ---------------------------
(***************************************************************************)
(* The forms a Telegram user fills in by answering prompts: the store      *)
(* (FormStateStore), the updates that advance it, and the submission.      *)
(* A user's tenant is what the identity of the update resolves to; with an *)
(* upstream resolver it may change from one update to the next.            *)
(*                                                                         *)
(* An answer is "good" or "bad" for the field it meets; an empty text      *)
(* never reaches a form.  What a submission carries is the list of answers *)
(* it was given.                                                           *)
(***************************************************************************)
EXTENDS Naturals, Sequences, SequencesExt, FiniteSets, FiniteSetsExt

CONSTANTS
    Users,         \* one chat each: a FormKey
    FormTenants,
    FormCap,       \* cap_per_tenant
    FieldCount,    \* fields of a form
    MaxForms       \* bound: forms installed in one behaviour

\* with_cap takes no less than one; a form without fields is not installed.
ASSUME FormConstants == FormCap \in Nat \ {0} /\ FieldCount \in Nat \ {0}

VARIABLES
    home,       \* home[u]: the tenant u resolves to
    forms,      \* forms[u]: the active form, or NoForm
    order,      \* per_tenant_order[t]: keys, oldest first
    submits,    \* submissions under way: [user, form, args]
    installed,  \* forms installed so far; the number names the form
    submitted,  \* history: how many answers the submitted forms carried
    moved,      \* history: a user changed tenant with a form active
    evictions   \* eviction lines: [form's tenant, queue's tenant]

formVars == <<home, forms, order, submits, installed, submitted, moved, evictions>>

NoForm == [id |-> 0]
Active(u) == forms[u] # NoForm

FormsInit ==
    /\ home \in [Users -> FormTenants]
    /\ forms = [u \in Users |-> NoForm] /\ order = [t \in FormTenants |-> <<>>]
    /\ submits = {} /\ installed = 0 /\ submitted = {}
    /\ moved = FALSE /\ evictions = {}

\* The platform's user is resolved anew with every update.
Rehome(u, t) ==
    /\ home[u] # t /\ home' = [home EXCEPT ![u] = t]
    /\ moved' = (moved \/ Active(u))
    /\ UNCHANGED <<forms, order, submits, installed, submitted, evictions>>

(***************************************************************************)
(* The store                                                               *)
(***************************************************************************)
ActiveForm(t) == [id |-> installed + 1, tenant |-> t, step |-> 0, args |-> <<>>]

\* maybe_evict: the front of the tenant's queue, if the queue is full.  A
\* key whose form is gone leaves the queue and evicts nothing.
Evictee(t) == IF Len(order[t]) < FormCap THEN {} ELSE {order[t][1]}

\* install_form_and_prompt: a tool of u's turn answered with a form.  One
\* that is active is replaced and keeps its place in the queue.
Install(u) ==
    /\ installed < MaxForms
    /\ LET t == home[u]
           out == IF Active(u) THEN {} ELSE Evictee(t)
           gone == {v \in out : Active(v)}
       IN /\ forms' = [v \in Users |-> IF v = u THEN ActiveForm(t)
                                       ELSE IF v \in gone THEN NoForm ELSE forms[v]]
          /\ order' = IF Active(u) THEN order
                      ELSE [order EXCEPT ![t] = Append(IF out = {} THEN @ ELSE Tail(@), u)]
          /\ evictions' = evictions \cup {[of |-> forms[v].tenant, by |-> t] : v \in gone}
    /\ installed' = installed + 1
    /\ UNCHANGED <<home, submits, submitted, moved>>

\* A form without fields, with too many, or with names that are empty or
\* double is not installed.
InstallRefused(u) == UNCHANGED formVars

\* Mutant: the form leaves the map and not the queue.
DropFormOnly(u) ==
    /\ forms' = [forms EXCEPT ![u] = NoForm]
    /\ order' = order

\* drop_form: out of the map, and its first place out of the queue of the
\* form's tenant.
DropForm(u) ==
    /\ forms' = [forms EXCEPT ![u] = NoForm]
    /\ order' = [order EXCEPT ![forms[u].tenant] = RemoveFirst(@, u)]

Cancel(u) ==
    /\ Active(u) /\ DropForm(u)
    /\ UNCHANGED <<home, submits, submitted, installed, moved, evictions>>

\* advance with an answer that coerce accepts: the next prompt, or the
\* submission, for which the form is dropped first.
Answer(u) ==
    /\ Active(u)
    /\ LET f == forms[u]
           done == [user |-> u, form |-> f.id, args |-> Append(f.args, f.step + 1)]
       IN IF f.step + 1 < FieldCount
          THEN /\ forms' = [forms EXCEPT ![u].step = @ + 1, ![u].args = Append(@, f.step + 1)]
               /\ UNCHANGED <<order, submits>>
          ELSE /\ DropForm(u) /\ submits' = submits \cup {done}
    /\ UNCHANGED <<home, submitted, installed, moved, evictions>>

\* advance with an answer that does not coerce: the same prompt again.
Reprompt(u) ==
    /\ Active(u) /\ UNCHANGED formVars

\* The submission: the sender is resolved once more, and one who is no
\* longer known submits nothing.
Submit(x) ==
    /\ x \in submits /\ submits' = submits \ {x}
    /\ submitted' \in {submitted, submitted \cup {Len(x.args)}}
    /\ UNCHANGED <<home, forms, order, installed, moved, evictions>>

FormsNext ==
    \/ \E u \in Users : \/ \E t \in FormTenants : Rehome(u, t)
                        \/ Install(u) \/ InstallRefused(u)
                        \/ Cancel(u) \/ Answer(u) \/ Reprompt(u)
    \/ \E x \in submits : Submit(x)

(***************************************************************************)
(* Properties                                                              *)
(***************************************************************************)
FormsOf(t) == {u \in Users : Active(u) /\ forms[u].tenant = t}

\* As long as nobody changes tenant with a form active, a tenant's queue
\* lists its active forms, each once and never more than the cap, and an
\* install evicts a form of its own tenant: a form that was cancelled,
\* submitted, replaced or evicted leaves no place behind that would evict
\* another too early.  And a form is submitted with an answer for
\* every field, also when answers were refused and other forms came and went.
QueueIsForms ==
    /\ submitted \subseteq {FieldCount}
    /\ ~moved =>
        /\ \A t \in FormTenants :
             /\ ToSet(order[t]) = FormsOf(t)
             /\ Len(order[t]) = Cardinality(FormsOf(t))
             /\ Len(order[t]) <= FormCap
        /\ \A x \in evictions : x.of = x.by
=============================================================================
