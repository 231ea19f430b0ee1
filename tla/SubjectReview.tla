---------------------------- MODULE SubjectReview ----------------------------
(***************************************************************************)
(* oc adm policy scc-subject-review (origin/pkg/cmd/admin/policy/          *)
(* subject_review.go): the command's Run is CheckErr(Complete) then        *)
(* CheckErr(Run), each error ending the process with exit code 1.          *)
(*                                                                         *)
(* Complete checks the flags and takes the clients and the printer from   *)
(* the factory.  Run builds the objects named by the arguments or files   *)
(* with a resource builder in ContinueOnError mode and visits them one by *)
(* one: the pod template of each is sent in a PodSecurityPolicy(Self)     *)
(* SubjectReview and the answer printed.  The builder, its visitor (which *)
(* collects the error of an item and goes on with the next), the pod      *)
(* template extraction, the review on the server and the printer's writer *)
(* are the environment: each item comes with the outcome it meets.        *)
(***************************************************************************)
EXTENDS Naturals, Sequences, SequencesExt

CONSTANTS
    Users,      \* values of --user ("" = unset)
    SAArgs,     \* values of --serviceaccount, by form (see below)
    GroupSets,  \* values of --groups
    Outputs,    \* values of --output ("" = the human-readable printer)
    Items       \* the builder's possible results: sequences of items

\* A --serviceaccount value: unset, a plain name, a comma separated list,
\* a "system:serviceaccount:<ns>:<name>" user name, or one with that prefix
\* that SplitUsername rejects.
SAForms == {"none", "name", "list", "username", "badUsername"}

\* What visiting an item meets: an error of the builder itself, no pod
\* template (GetPodTemplateForObject), a StatefulSet with volume claim
\* templates, a failed review, a failed print, or none of these.
Outcomes == {"builderErr", "templateErr", "statefulSetErr", "reviewErr",
             "printErr", "ok"}

VARIABLES
    pc,         \* "complete", "run", "visit" or "exited"
    user,       \* --user
    sa,         \* --serviceaccount: [form, name]
    groups,     \* --groups
    output,     \* --output
    noHeadersFlag, \* --no-headers
    hasInput,   \* arguments or --filename were given
    items,      \* the objects the builder yields, with their outcomes
    i,          \* the next item to visit (0 before Run)
    noHeaders,  \* the human-readable printer's noHeaders field
    out,        \* the lines written: "header" or <<"row", item, allowedBy>>
    errs,       \* the errors collected so far: <<"visit" or "print", item>>
    reviews,    \* the review requests sent, in order (history)
    exit        \* "none", "0" or "1"

vars == <<pc, user, sa, groups, output, noHeadersFlag, hasInput, items, i,
          noHeaders, out, errs, reviews, exit>>

Init ==
    /\ pc = "complete"
    /\ user \in Users /\ sa \in SAArgs /\ groups \in GroupSets
    /\ output \in Outputs /\ noHeadersFlag \in BOOLEAN /\ hasInput \in BOOLEAN
    /\ items \in Items
    /\ i = 0 /\ noHeaders = noHeadersFlag /\ out = <<>> /\ errs = {}
    /\ reviews = <<>> /\ exit = "none"

\* CheckErr: the process ends with exit code 1.
Fail ==
    /\ pc' = "exited" /\ exit' = "1"

\* Complete: arguments or files are required, --user and
\* --serviceaccount exclude each other, a list of service accounts is
\* refused and a service account user name is cut to its name; then the
\* factory calls (DefaultNamespace, Clients and, with --output,
\* ClientConfig, OutputVersion and PrinterForCommand), any of which may
\* fail.
Complete(factoryOk) ==
    /\ pc = "complete"
    /\ IF \/ ~hasInput
          \/ user # "" /\ sa.form # "none"
          \/ sa.form \in {"list", "badUsername"}
          \/ ~factoryOk
       THEN Fail
       ELSE pc' = "run" /\ UNCHANGED exit
    /\ UNCHANGED <<user, sa, groups, output, noHeadersFlag, hasInput, items,
                   i, noHeaders, out, errs, reviews>>

\* Run: the builder's Err() ends the command before any visit.
Run(builderOk) ==
    /\ pc = "run"
    /\ IF builderOk THEN pc' = "visit" /\ i' = 1 /\ UNCHANGED exit
                    ELSE Fail /\ UNCHANGED i
    /\ UNCHANGED <<user, sa, groups, output, noHeadersFlag, hasInput, items,
                   noHeaders, out, errs, reviews>>

\* The subject of the review: the service account (by name) if one was
\* given, else the user; with neither nor any group the review is a
\* self review.
UserOrSA == IF sa.form # "none" THEN sa.name ELSE user

Review ==
    IF UserOrSA # "" \/ groups # {}
    THEN [kind |-> "subject", user |-> UserOrSA, groups |-> groups]
    ELSE [kind |-> "self"]

\* getAllowedBy: the name of the constraint that admits the pod, or
\* "<none>".
AllowedBy(item) == IF item.allowedBy = "nil" THEN "<none>" ELSE item.allowedBy

\* Faulty variant: the printer has a value receiver, so setting noHeaders
\* does not outlast the call.
PrintHumanValueReceiver(j, ok) ==
    /\ out' = (IF noHeaders THEN out ELSE Append(out, "header"))
              \o (IF ok THEN <<<<"row", j, AllowedBy(items[j])>>>> ELSE <<>>)
    /\ UNCHANGED noHeaders

\* sccSubjectReviewHumanReadablePrinter.print: the header the first time
\* only (unless --no-headers); then ObjectKind, getAllowedBy and the row,
\* which may fail after the header was written.
PrintHuman(j, ok) ==
    /\ out' = (IF noHeaders THEN out ELSE Append(out, "header"))
              \o (IF ok THEN <<<<"row", j, AllowedBy(items[j])>>>> ELSE <<>>)
    /\ noHeaders' = TRUE

\* sccSubjectReviewOutputPrinter.print: PrintObj of the review.
PrintOutput(j, ok) ==
    /\ out' = IF ok THEN Append(out, <<"row", j, AllowedBy(items[j])>>) ELSE out
    /\ UNCHANGED noHeaders

\* Faulty variant: a print error is dropped instead of collected.
VisitIgnoringPrintError(j) ==
    LET o == items[j].outcome IN
    /\ reviews' = IF o \in {"reviewErr", "printErr", "ok"}
                  THEN Append(reviews, Review) ELSE reviews
    /\ IF o \in {"printErr", "ok"}
       THEN /\ IF output = "" THEN PrintHuman(j, o = "ok")
                              ELSE PrintOutput(j, o = "ok")
            /\ UNCHANGED errs
       ELSE /\ errs' = errs \cup {<<"visit", j>>}
            /\ UNCHANGED <<out, noHeaders>>

\* The visitor function on item j.  A builder error never reaches it (the
\* ContinueOnError visitor collects it); a template, StatefulSet or review
\* error is returned and collected; a print error is appended to allErrs
\* and the visit goes on.  The review is sent unless the object failed
\* before it.
Visit(j) ==
    LET o == items[j].outcome IN
    /\ reviews' = IF o \in {"reviewErr", "printErr", "ok"}
                  THEN Append(reviews, Review) ELSE reviews
    /\ IF o \in {"printErr", "ok"}
       THEN /\ IF output = "" THEN PrintHuman(j, o = "ok")
                              ELSE PrintOutput(j, o = "ok")
            /\ errs' = IF o = "ok" THEN errs ELSE errs \cup {<<"print", j>>}
       ELSE /\ errs' = errs \cup {<<"visit", j>>}
            /\ UNCHANGED <<out, noHeaders>>

VisitItem ==
    /\ pc = "visit" /\ i <= Len(items)
    /\ Visit(i)
    /\ i' = i + 1
    /\ UNCHANGED <<pc, user, sa, groups, output, noHeadersFlag, hasInput,
                   items, exit>>

\* Run returns NewAggregate(allErrs): nil when nothing failed.
Finish ==
    /\ pc = "visit" /\ i > Len(items)
    /\ pc' = "exited"
    /\ exit' = IF errs = {} THEN "0" ELSE "1"
    /\ UNCHANGED <<user, sa, groups, output, noHeadersFlag, hasInput, items,
                   i, noHeaders, out, errs, reviews>>

Next ==
    \/ \E ok \in BOOLEAN : Complete(ok)
    \/ \E ok \in BOOLEAN : Run(ok)
    \/ VisitItem
    \/ Finish

Spec == Init /\ [][Next]_vars

-----------------------------------------------------------------------------

Rows == {out[k] : k \in {k \in DOMAIN out : out[k] # "header"}}

\* The exit code tells whether everything was reviewed: the command exits
\* 0 exactly when it visited every object the builder yielded and printed
\* a row for each; a failure of any one object (including a failed print,
\* which the visitor does not return) makes it exit 1.
ExitReflectsFailures ==
    exit # "none" =>
        (exit = "0" <=> /\ i = Len(items) + 1
                        /\ \A j \in 1..Len(items) :
                              \E r \in Rows : r[2] = j)

\* The human-readable printer writes its header once, as the first line,
\* however many objects are printed, and not at all with --no-headers or
\* --output.
HeaderOnceFirst ==
    \A k \in DOMAIN out :
        out[k] = "header" <=> (k = 1 /\ output = "" /\ ~noHeadersFlag)

=============================================================================
