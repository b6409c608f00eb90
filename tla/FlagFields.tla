------------------------------ MODULE FlagFields ------------------------------
(***************************************************************************)
(* The flag console's fields, and how each is told apart: for the code     *)
(* that looks for it, by a test id; for whoever hears the page instead of  *)
(* seeing it, by a name made of two texts on it.                           *)
(*                                                                         *)
(* An id is the sequence of the parts it is joined from.  Joined with      *)
(* dashes it reads back as those parts as long as no key has a dash in it: *)
(* the API's schema takes none, the seeded flag has none, and the console  *)
(* changes neither key.                                                    *)
(***************************************************************************)
EXTENDS Sequences

FlagField == {"Save", "SaveMessage", "Enabled"}

CopyField == {"headline", "subheadline", "ctaLabel"}

WEIGHT_FIELD == "weight"

VariantField == CopyField \cup {WEIGHT_FIELD}

copyLabelMap ==
    [headline |-> "Headline", subheadline |-> "Subheadline", ctaLabel |-> "Button label"]

-----------------------------------------------------------------------------
(* Test ids.                                                               *)
flagFieldTestId(flagKey, field) == <<"AdminTestIds", "Flag", flagKey, field>>

variantFieldTestId(flagKey, variantKey, field) ==
    <<"AdminTestIds", "Flag", flagKey, "Variant", variantKey, field>>

-----------------------------------------------------------------------------
(* Element ids, and the pair of them a field is labelled by.               *)
variantHeadingId(flagKey, variantKey) == <<"flag", flagKey, "variant", variantKey, "name">>

variantLabelId(flagKey, variantKey, field) ==
    <<"flag", flagKey, "variant", variantKey, field, "label">>

variantFieldLabelledBy(flagKey, variantKey, field) ==
    <<variantHeadingId(flagKey, variantKey), variantLabelId(flagKey, variantKey, field)>>

-----------------------------------------------------------------------------
(* The elements those ids name: a heading says its variant's key, a label  *)
(* what its field is.                                                      *)
labelText(field) == IF field = WEIGHT_FIELD THEN "Share of traffic (%)" ELSE copyLabelMap[field]

Heading(flagKey, variantKey) ==
    [id |-> variantHeadingId(flagKey, variantKey), text |-> variantKey]

Label(flagKey, variantKey, field) ==
    [id |-> variantLabelId(flagKey, variantKey, field), text |-> labelText(field)]

VariantEditor(flagKey, variantKey) ==
    {Heading(flagKey, variantKey)} \cup {Label(flagKey, variantKey, field) : field \in VariantField}

FlagEditor(flagKey, variantKeys) ==
    UNION {VariantEditor(flagKey, variantKey) : variantKey \in variantKeys}

Flags(flags) == UNION {FlagEditor(flagKey, flags[flagKey]) : flagKey \in DOMAIN flags}

(* What a screen reader says: the texts behind the ids, in their order.    *)
accessibleName(elements, labelledBy) ==
    [i \in DOMAIN labelledBy |-> {element.text : element \in {e \in elements : e.id = labelledBy[i]}}]

=============================================================================
