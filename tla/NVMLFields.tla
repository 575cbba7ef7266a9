------------------------------ MODULE NVMLFields ------------------------------
(***************************************************************************)
(* Which power fields an NVML device reports (nvml/NVMLImpl.cpp):          *)
(* Initialize() asks for all of them once and erases those that failed     *)
(* from two parallel vectors while it walks them by index; GetState()      *)
(* reports the remaining ones, the default field first. Indices count      *)
(* from 1 here.                                                            *)
(***************************************************************************)
EXTENDS SequencesExt, Integers

field_names_ == <<"gpu_average", "module_average", "memory_average",
                  "gpu_instant", "module_instant", "cpu_instant">>
field_ids_ == <<"average", "instant">>
kDefaultFieldName == "gpu_instant"

scope_count == Len(field_names_) \div Len(field_ids_)

\* The field that Initialize() asks for at index i.
FieldValue(i) == [fieldId |-> field_ids_[((i - 1) \div scope_count) + 1],
                  scopeId |-> (i - 1) % scope_count]

Fields == {FieldValue(i) : i \in DOMAIN field_names_}

\* Variant: without the i-- after an erasure.
ScanAndSkip(d, failed) ==
    IF d.i > Len(d.names) THEN d
    ELSE IF d.values[d.i] \in failed
    THEN [d EXCEPT !.names = RemoveAt(@, d.i), !.values = RemoveAt(@, d.i), !.i = @ + 1]
    ELSE [d EXCEPT !.default = IF d.names[d.i] = kDefaultFieldName THEN d.i ELSE @,
                   !.i = @ + 1]

\* One turn of the loop that removes the fields that failed.
Scan(d, failed) ==
    IF d.i > Len(d.names) THEN d
    ELSE IF d.values[d.i] \in failed
    THEN [d EXCEPT !.names = RemoveAt(@, d.i), !.values = RemoveAt(@, d.i)]
    ELSE [d EXCEPT !.default = IF d.names[d.i] = kDefaultFieldName THEN d.i ELSE @,
                   !.i = @ + 1]

\* Every turn erases a field or moves on, so there are as many turns as fields.
Initialize(failed) ==
    FoldLeft(LAMBDA d, n : Scan(d, failed),
             [names |-> field_names_, values |-> [i \in DOMAIN field_names_ |-> FieldValue(i)],
              default |-> 1, i |-> 1],
             field_names_)

\* std::swap of the first entry and the default one.
SwapFirst(s, default) ==
    [i \in DOMAIN s |-> IF i = 1 THEN s[default] ELSE IF i = default THEN s[1] ELSE s[i]]

\* The names of a State and, for each of them, the field its power was read from.
\* Without any field the code indexes empty vectors, which is undefined: no property
\* speaks of what is given for that case.
GetState(d) ==
    [name |-> SwapFirst(d.names, d.default), watt |-> SwapFirst(d.values, d.default)]

-----------------------------------------------------------------------------
\* When any field is left, every field that did not fail is reported once, with its own
\* value under its own name, and gpu_instant comes first when it is there
\* (NVMLImpl.cpp:51-61, 81-88).
ReportsEachField(d, failed) ==
    LET state == GetState(d)
        kept  == {i \in DOMAIN field_names_ : FieldValue(i) \notin failed}
    IN  kept # {} =>
        /\ Len(state.name) = Cardinality(kept)
        /\ {<<state.name[i], state.watt[i]>> : i \in DOMAIN state.name} =
              {<<field_names_[i], FieldValue(i)>> : i \in kept}
        /\ kDefaultFieldName \in ToSet(state.name) => state.name[1] = kDefaultFieldName

=============================================================================
