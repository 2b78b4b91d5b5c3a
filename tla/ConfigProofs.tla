---------------------------- MODULE ConfigProofs ----------------------------
(***************************************************************************)
(* Startup, for every environment and every forms file: any number of      *)
(* forms, any settings.  Resolving, validating and mounting each go over   *)
(* the same list of forms in their own turn; the invariant says how far    *)
(* each has got and what it has made sure of for the forms behind it.      *)
(***************************************************************************)
EXTENDS Config, SequenceTheorems, TLAPS

-----------------------------------------------------------------------------
(* The invariant.                                                          *)

Phases == {"loading", "resolving", "validating", "building", "serving", "refused", "panicked"}

IsList(s) == s \in Seq({s[i] : i \in DOMAIN s})

Typed ==
    /\ phase \in Phases
    /\ source \in Sources
    /\ IsList(forms) /\ IsList(mounted)
    /\ checked \in Nat /\ checked <= Len(forms)

\* The form at i is the one of the source, and a file's has been given a way to send.
MadeFrom(i) ==
    /\ source.kind = "env" => forms[i] = EnvForm
    /\ source.kind = "file" => \E way \in resolveProvider(source.forms[i]) :
                                  forms[i] = FileForm(source.forms[i], way)

FormsWanted == IF source.kind = "env" THEN 1 ELSE Len(source.forms)

Resolved ==
    /\ \A i \in 1 .. Len(forms) : MadeFrom(i)
    /\ Len(forms) <= FormsWanted
    /\ phase = "loading" => Len(forms) = 0
    /\ phase = "resolving" => source.kind = "file"
    /\ phase \in {"validating", "building", "serving"} => Len(forms) = FormsWanted

\* What validate has been through has an id of its own and fine settings.
Validated ==
    /\ seen = {forms[i].id : i \in 1 .. checked}
    /\ \A i \in 1 .. checked : forms[i].id \in WellFormedIds /\ validateFormFields(forms[i])
    /\ \A i, j \in 1 .. checked : forms[i].id = forms[j].id => i = j
    /\ phase \in {"loading", "resolving"} => checked = 0
    /\ phase \in {"building", "serving"} => checked = Len(forms)

\* The routes are for the first of the forms, in their order.
Mounted ==
    /\ Len(mounted) <= Len(forms)
    /\ \A i \in 1 .. Len(mounted) : mounted[i] = forms[i]
    /\ phase \in {"loading", "resolving", "validating"} => Len(mounted) = 0
    /\ phase = "serving" => Len(mounted) = Len(forms)

Ends ==
    /\ phase # "refused" => by # "New"
    /\ LoadLeavesNothingToNew
    /\ RefusedOnlyForAReason

Inv == Typed /\ Resolved /\ Validated /\ Mounted /\ Ends

-----------------------------------------------------------------------------
(* What two layers come to.                                                *)

Merged(outer, inner) == Overlay(Overlay(Empty, outer), inner)
Own(outer, inner) == IF NamesSecret(inner) THEN inner ELSE outer

\* Every setting is the inner block's before the outer's; the secret, in either of
\* its two ways, is that of the inner block if it gives one in any way.
LEMMA LayersMerge ==
    ASSUME NEW outer, NEW inner
    PROVE  /\ Merged(outer, inner).who = Or(inner.who, outer.who)
           /\ Merged(outer, inner).place = Or(inner.place, outer.place)
           /\ Merged(outer, inner).base = Or(inner.base, outer.base)
           /\ Merged(outer, inner).named = Own(outer, inner).named
           /\ Merged(outer, inner).inline =
                IF Own(outer, inner).named # None THEN None ELSE Own(outer, inner).inline
<1> DEFINE first == Overlay(Empty, outer)
<1>1. /\ first.who = outer.who /\ first.place = outer.place /\ first.base = outer.base
      /\ first.named = outer.named
      /\ first.inline = IF outer.named # None THEN None ELSE outer.inline
  BY DEF Overlay, Empty, Or, Named
<1>2. /\ Merged(outer, inner).who = Or(inner.who, first.who)
      /\ Merged(outer, inner).place = Or(inner.place, first.place)
      /\ Merged(outer, inner).base = Or(inner.base, first.base)
      /\ Merged(outer, inner).inline =
           IF inner.named # None THEN None ELSE Or(inner.inline, first.inline)
      /\ Merged(outer, inner).named = Named(first, inner)
  BY DEF Merged, Overlay
<1> HIDE DEF first
<1>3. CASE NamesSecret(inner)
  BY <1>1, <1>2, <1>3 DEF NamesSecret, Own, Named, Or
<1>4. CASE ~ NamesSecret(inner)
  BY <1>1, <1>2, <1>4 DEF NamesSecret, Own, Named, Or
<1> QED
  BY <1>3, <1>4

LEMMA SecretsDiffer ==
    ASSUME NEW of
    PROVE  /\ [from |-> "variable", of |-> of] # NoSecret
           /\ [from |-> "file", of |-> of] # NoSecret
<1>1. /\ [from |-> "variable", of |-> of].from = "variable"
      /\ [from |-> "file", of |-> of].from = "file"
      /\ NoSecret.from = "nowhere"
  BY DEF NoSecret
<1> QED
  BY <1>1

\* What the secret is of, and what it means that there is none.
LEMMA SecretOfOwn ==
    ASSUME NEW outer, NEW inner, NEW own, NEW m,
           own = Own(outer, inner), m = Merged(outer, inner)
    PROVE  /\ MissingSecret(m) => own.named # None /\ own.named \notin source.set
           /\ ~ MissingSecret(m) /\ NamesSecret(own) =>
                /\ Secret(m) # NoSecret
                /\ \/ Secret(m) = [from |-> "variable", of |-> own.named]
                   \/ Secret(m) = [from |-> "file", of |-> own.inline]
           /\ ~ NamesSecret(own) => Secret(m) = NoSecret
           /\ ~ NamesSecret(own) => ~ NamesSecret(inner) /\ ~ NamesSecret(outer)
<1>1. m.named = own.named /\ m.inline = IF own.named # None THEN None ELSE own.inline
  BY LayersMerge
<1>2. CASE own.named # None /\ own.named \in source.set
  <2>1. Secret(m) = [from |-> "variable", of |-> own.named]
    BY <1>1, <1>2 DEF Secret
  <2> QED
    BY <1>2, <2>1, SecretsDiffer DEF NamesSecret, MissingSecret
<1>3. CASE own.named # None /\ own.named \notin source.set
  <2>1. Secret(m) = NoSecret
    BY <1>1, <1>3 DEF Secret
  <2> QED
    BY <1>1, <1>3, <2>1 DEF NamesSecret, MissingSecret
<1>4. CASE own.named = None /\ own.inline # None
  <2>1. Secret(m) = [from |-> "file", of |-> own.inline]
    BY <1>1, <1>4 DEF Secret
  <2> QED
    BY <1>1, <1>4, <2>1, SecretsDiffer DEF NamesSecret, MissingSecret
<1>5. CASE own.named = None /\ own.inline = None
  <2>1. Secret(m) = NoSecret
    BY <1>1, <1>5 DEF Secret
  <2> QED
    BY <1>1, <1>5, <2>1 DEF NamesSecret, MissingSecret, Own
<1> QED
  BY <1>2, <1>3, <1>4, <1>5

-----------------------------------------------------------------------------
(* What resolveProvider finds, and why it may find nothing.                *)

MergedFor(f) == Merged(Outer(f), Inner(f))

LEMMA BlockMissing ==
    /\ OrEmpty(None) = Empty
    /\ ~ SetsBoth(Empty) /\ ~ SetsBoth(None)
BY DEF OrEmpty, SetsBoth, Empty

LEMMA BlockGiven ==
    ASSUME NEW layer, layer # None
    PROVE  OrEmpty(layer) = layer
BY DEF OrEmpty

LEMMA SetsBothEither ==
    ASSUME NEW layer
    PROVE  SetsBoth(OrEmpty(layer)) <=> SetsBoth(layer)
BY BlockMissing, BlockGiven

\* resolveProvider comes down to these two.
LEMMA ProvidersTried ==
    ASSUME NEW f
    PROVE  /\ UsesMailgun(f) /\ f.smtp = None /\ (f.mailgun # None \/ source.smtp = None)
                => resolveProvider(f) = resolveMailgun(source.mailgun, f.mailgun)
           /\ ~ UsesMailgun(f) => resolveProvider(f) = resolveSMTP(source.smtp, f.smtp)
           /\ f.smtp # None /\ f.mailgun # None => resolveProvider(f) = {}
           /\ UsesMailgun(f) /\ f.mailgun = None /\ source.smtp # None => resolveProvider(f) = {}
BY DEF UsesMailgun, resolveProvider

LEMMA WayFound ==
    ASSUME NEW f, NEW w \in resolveProvider(f)
    PROVE  /\ w = Way(IF UsesMailgun(f) THEN "mailgun" ELSE "smtp", MergedFor(f))
           /\ ~ MissingSecret(MergedFor(f))
           /\ w.who # None => w.secret # NoSecret
           /\ f.smtp = None \/ f.mailgun = None
           /\ UsesMailgun(f) =>
                /\ w.who # None /\ w.place # Elsewhere
                /\ f.mailgun # None \/ source.smtp = None
           /\ ~ UsesMailgun(f) => ~ SetsBoth(Outer(f)) /\ ~ SetsBoth(Inner(f))
<1>1. f.smtp = None \/ f.mailgun = None
  BY ProvidersTried
<1>2. CASE UsesMailgun(f)
  <2>1. f.mailgun # None \/ source.smtp = None
    BY <1>2, ProvidersTried
  <2>2. f.smtp = None
    BY <1>1, <1>2 DEF UsesMailgun
  <2>3. w \in resolveMailgun(source.mailgun, f.mailgun)
    BY <1>2, <2>1, <2>2, ProvidersTried
  <2>4. mergeMailgunLayers(source.mailgun, f.mailgun) = MergedFor(f)
    BY <1>2 DEF mergeMailgunLayers, MergedFor, Merged, Outer, Inner
  <2> QED
    BY <1>1, <1>2, <2>1, <2>3, <2>4 DEF resolveMailgun
<1>3. CASE ~ UsesMailgun(f)
  <2>1. w \in resolveSMTP(source.smtp, f.smtp)
    BY <1>3, ProvidersTried
  <2>2. mergeSMTPLayers(source.smtp, f.smtp) = MergedFor(f)
    BY <1>3 DEF mergeSMTPLayers, MergedFor, Merged, Outer, Inner
  <2>3. ~ SetsBoth(Outer(f)) /\ ~ SetsBoth(Inner(f))
    BY <1>3, <2>1, SetsBothEither DEF resolveSMTP, validateSMTPLayers, Outer, Inner
  <2> QED
    BY <1>1, <1>3, <2>1, <2>2, <2>3 DEF resolveSMTP
<1> QED
  BY <1>2, <1>3

LEMMA NoWayForAReason ==
    ASSUME NEW f, resolveProvider(f) = {}
    PROVE  FormAtFault(f)
<1> DEFINE m == MergedFor(f)
           own == Own(Outer(f), Inner(f))
<1>1. /\ MissingSecret(m) => own.named # None /\ own.named \notin source.set
      /\ ~ MissingSecret(m) /\ NamesSecret(own) => Secret(m) # NoSecret
      /\ ~ NamesSecret(own) => ~ NamesSecret(Inner(f)) /\ ~ NamesSecret(Outer(f))
  BY SecretOfOwn DEF MergedFor
<1>2. MissingSecret(m) => SecretLost(f)
  BY <1>1 DEF SecretLost, Own
<1>3. m.who = Or(Inner(f).who, Outer(f).who) /\ m.place = Or(Inner(f).place, Outer(f).place)
  BY LayersMerge DEF MergedFor
<1>4. CASE f.smtp # None /\ f.mailgun # None
  BY <1>4 DEF FormAtFault
<1>5. CASE UsesMailgun(f) /\ f.mailgun = None /\ source.smtp # None
  BY <1>5 DEF FormAtFault, UsesMailgun
<1>6. CASE UsesMailgun(f) /\ f.smtp = None /\ (f.mailgun # None \/ source.smtp = None)
  <2>1. resolveMailgun(source.mailgun, f.mailgun) = {}
    BY <1>6, ProvidersTried
  <2>2. mergeMailgunLayers(source.mailgun, f.mailgun) = m
    BY <1>6 DEF mergeMailgunLayers, MergedFor, Merged, Outer, Inner
  <2>3. /\ Way("mailgun", m).who = m.who /\ Way("mailgun", m).place = m.place
        /\ Way("mailgun", m).secret = Secret(m)
    BY DEF Way
  <2>4. SetsBoth(f.mailgun) \/ MissingSecret(m) \/ m.who = None \/ Secret(m) = NoSecret
          \/ m.place = Elsewhere
    <3> SUFFICES ASSUME ~ SetsBoth(f.mailgun), ~ MissingSecret(m), m.who # None,
                        Secret(m) # NoSecret, m.place # Elsewhere
                 PROVE  FALSE
      OBVIOUS
    <3>1. Way("mailgun", m) \in resolveMailgun(source.mailgun, f.mailgun)
      BY <2>2, <2>3 DEF resolveMailgun
    <3> QED
      BY <2>1, <3>1
  <2>5. CASE SetsBoth(f.mailgun)
    BY <1>6, <2>5, SetsBothEither DEF FormAtFault, Inner
  <2>6. CASE MissingSecret(m)
    BY <1>2, <2>6 DEF FormAtFault
  <2>7. CASE m.who = None
    BY <1>3, <1>6, <2>7 DEF FormAtFault, Or
  <2>8. CASE ~ MissingSecret(m) /\ Secret(m) = NoSecret
    BY <1>1, <1>6, <2>8 DEF FormAtFault
  <2>9. CASE m.place = Elsewhere
    BY <1>3, <1>6, <2>9 DEF FormAtFault, Or
  <2> QED
    BY <2>4, <2>5, <2>6, <2>7, <2>8, <2>9
<1>7. CASE ~ UsesMailgun(f)
  <2>1. resolveSMTP(source.smtp, f.smtp) = {}
    BY <1>7, ProvidersTried
  <2>2. mergeSMTPLayers(source.smtp, f.smtp) = m
    BY <1>7 DEF mergeSMTPLayers, MergedFor, Merged, Outer, Inner
  <2>3. Way("smtp", m).who = m.who /\ Way("smtp", m).secret = Secret(m)
    BY DEF Way
  <2>4. \/ SetsBoth(f.smtp) \/ SetsBoth(source.smtp) \/ MissingSecret(m)
        \/ m.who # None /\ Secret(m) = NoSecret
    <3> SUFFICES ASSUME ~ SetsBoth(f.smtp), ~ SetsBoth(source.smtp), ~ MissingSecret(m),
                        m.who # None => Secret(m) # NoSecret
                 PROVE  FALSE
      OBVIOUS
    <3>1. Way("smtp", m) \in resolveSMTP(source.smtp, f.smtp)
      BY <2>2, <2>3 DEF resolveSMTP, validateSMTPLayers
    <3> QED
      BY <2>1, <3>1
  <2>5. CASE SetsBoth(f.smtp) \/ SetsBoth(source.smtp)
    BY <1>7, <2>5, SetsBothEither DEF FormAtFault, Inner, Outer
  <2>6. CASE MissingSecret(m)
    BY <1>2, <2>6 DEF FormAtFault
  <2>7. CASE ~ MissingSecret(m) /\ m.who # None /\ Secret(m) = NoSecret
    BY <1>1, <1>3, <2>7 DEF FormAtFault, Or
  <2> QED
    BY <2>4, <2>5, <2>6, <2>7
<1> QED
  BY <1>4, <1>5, <1>6, <1>7 DEF UsesMailgun

-----------------------------------------------------------------------------
(* The source stays as it was found, and what follows from it with it.     *)

AtFault ==
    \/ ~ source.level
    \/ ~ source.proxies
    \/ source.kind = "env" /\ EnvAtFault
    \/ source.kind = "file" /\ FileAtFault

LEMMA WaysStay ==
    ASSUME UNCHANGED source, NEW f
    PROVE  resolveProvider(f)' = resolveProvider(f)
BY DEF resolveProvider, resolveSMTP, resolveMailgun, Way, Secret, MissingSecret

LEMMA MadeFromStays ==
    ASSUME UNCHANGED source, NEW i, forms'[i] = forms[i], MadeFrom(i)
    PROVE  MadeFrom(i)'
<1> DEFINE f == source.forms[i]
<1>1. PICK k : k = f
  OBVIOUS
<1>2. source'.forms[i] = k
  BY <1>1
<1>3. resolveProvider(k)' = resolveProvider(k)
  BY WaysStay
<1>4. source.kind = "file" => \E way \in resolveProvider(k) : forms[i] = FileForm(k, way)
  BY <1>1 DEF MadeFrom
<1>5. source'.kind = "file" => \E way \in resolveProvider(k)' : forms'[i] = FileForm(k, way)
  BY <1>3, <1>4
<1>6. source'.kind = "env" => forms'[i] = EnvForm'
  BY DEF MadeFrom, EnvForm
<1> QED
  BY <1>2, <1>5, <1>6 DEF MadeFrom, resolveProvider, resolveSMTP, resolveMailgun, Way, Secret, MissingSecret

LEMMA AtFaultStays ==
    ASSUME UNCHANGED source, AtFault
    PROVE  AtFault'
<1>1. \A f : FormAtFault(f) => FormAtFault(f)'
  BY DEF FormAtFault, SecretLost, UsesMailgun, Outer, Inner
<1>2. FileAtFault => FileAtFault'
  <2>1. source' = source
    OBVIOUS
  <2>2. CASE \E i \in DOMAIN source.forms : FormAtFault(source.forms[i])
    <3>1. PICK i \in DOMAIN source.forms : FormAtFault(source.forms[i])
      BY <2>2
    <3>2. PICK f : f = source.forms[i]
      OBVIOUS
    <3>3. FormAtFault(f)'
      BY <1>1, <3>1, <3>2
    <3>4. FormAtFault(source.forms[i])'
      BY <2>1, <3>2, <3>3 DEF FormAtFault, SecretLost, UsesMailgun, Outer, Inner
    <3> QED
      BY <2>1, <3>1, <3>4 DEF FileAtFault
  <2>3. CASE ~ \E i \in DOMAIN source.forms : FormAtFault(source.forms[i])
    BY <2>1, <2>3 DEF FileAtFault
  <2> QED
    BY <2>2, <2>3
<1> QED
  BY <1>2 DEF AtFault, EnvAtFault

-----------------------------------------------------------------------------
(* Lists of forms.                                                         *)

LEMMA ListFacts ==
    ASSUME NEW s, IsList(s)
    PROVE  /\ Len(s) \in Nat
           /\ DOMAIN s = 1 .. Len(s)
           /\ s = <<>> <=> Len(s) = 0
<1> DEFINE S == {s[i] : i \in DOMAIN s}
<1>1. s \in Seq(S)
  BY DEF IsList
<1> QED
  BY <1>1, LenProperties, EmptySeq

LEMMA AppendLists ==
    ASSUME NEW s, NEW e, IsList(s)
    PROVE  /\ IsList(Append(s, e))
           /\ Len(Append(s, e)) = Len(s) + 1
           /\ \A i \in 1 .. Len(s) : Append(s, e)[i] = s[i]
           /\ Append(s, e)[Len(s) + 1] = e
<1> DEFINE S == {s[i] : i \in DOMAIN s} \cup {e}
           t == Append(s, e)
<1>1. s \in Seq(S)
  BY SeqMonotonic DEF IsList
<1>2. /\ t \in Seq(S) /\ Len(t) = Len(s) + 1
      /\ \A i \in 1 .. Len(s) : t[i] = s[i]
      /\ t[Len(s) + 1] = e
  BY <1>1, AppendProperties
<1>3. t \in Seq({t[i] : i \in DOMAIN t})
  <2>1. Len(t) \in Nat /\ t \in [1 .. Len(t) -> S] /\ DOMAIN t = 1 .. Len(t)
    BY <1>2, LenProperties
  <2>2. t \in [1 .. Len(t) -> {t[i] : i \in DOMAIN t}]
    BY <2>1
  <2> QED
    BY <2>1, <2>2, SeqDef
<1> QED
  BY <1>2, <1>3 DEF IsList

LEMMA OneForm ==
    ASSUME NEW e
    PROVE  IsList(<<e>>) /\ Len(<<e>>) = 1 /\ <<e>>[1] = e
<1>1. DOMAIN <<e>> = 1 .. 1
  OBVIOUS
<1>2. <<e>> \in Seq({e}) /\ {<<e>>[i] : i \in DOMAIN <<e>>} = {e}
  OBVIOUS
<1> QED
  BY <1>2 DEF IsList

\* What the assumption on the sources comes to in a state.
LEMMA SourceFacts ==
    ASSUME source \in Sources
    PROVE  /\ source.kind = "env" \/ source.kind = "file"
           /\ source.kind = "env" =>
                source.origins \in {"usual", "unusual", "path", "none", "missing"}
           /\ source.kind = "file" =>
                /\ IsList(source.forms)
                /\ \A i \in DOMAIN source.forms :
                     /\ source.forms[i].mail \in {"fine", "faulty"}
                     /\ source.forms[i].origins \in {"usual", "unusual", "path", "none"}
           /\ FormsWanted \in Nat
<1>1. /\ source.kind = "env" \/ source.kind = "file"
      /\ source.kind = "env" =>
           source.origins \in {"usual", "unusual", "path", "none", "missing"}
      /\ source.kind = "file" =>
           /\ source.forms \in Seq({source.forms[i] : i \in DOMAIN source.forms})
           /\ \A i \in DOMAIN source.forms :
                /\ source.forms[i].mail \in {"fine", "faulty"}
                /\ source.forms[i].origins \in {"usual", "unusual", "path", "none"}
  BY SourcesAssumption
<1>2. source.kind = "file" => IsList(source.forms)
  BY <1>1 DEF IsList
<1>3. FormsWanted \in Nat
  BY <1>1, <1>2, ListFacts DEF FormsWanted
<1> QED
  BY <1>1, <1>2, <1>3

LEMMA InvInit ==
    ASSUME Init
    PROVE  Inv
<1>1. IsList(<<>>) /\ Len(<<>>) = 0
  BY EmptySeq DEF IsList
<1>2. Typed
  BY <1>1 DEF Init, Typed, Phases
<1>3. FormsWanted \in Nat
  BY <1>2, SourceFacts DEF Typed
<1>4. Resolved
  BY <1>1, <1>3 DEF Init, Resolved
<1>5. Validated
  <2>1. 1 .. 0 = {}
    OBVIOUS
  <2> QED
    BY <2>1 DEF Init, Validated
<1>6. Mounted
  BY <1>1 DEF Init, Mounted
<1>7. Ends
  BY NoneAssumption DEF Init, Ends, LoadLeavesNothingToNew, RefusedOnlyForAReason
<1> QED
  BY <1>2, <1>4, <1>5, <1>6, <1>7 DEF Inv

-----------------------------------------------------------------------------
(* What the steps have in common.                                          *)

\* The forms behind stay as they were made.
LEMMA FormsStay ==
    ASSUME UNCHANGED <<source, forms>>, Resolved
    PROVE  /\ \A i \in 1 .. Len(forms) : MadeFrom(i)'
           /\ FormsWanted' = FormsWanted
<1>1. \A i \in 1 .. Len(forms) : MadeFrom(i)'
  <2> SUFFICES ASSUME NEW i \in 1 .. Len(forms)
               PROVE  MadeFrom(i)'
    OBVIOUS
  <2>1. MadeFrom(i)
    BY DEF Resolved
  <2> QED
    BY <2>1, MadeFromStays
<1> QED
  BY <1>1 DEF FormsWanted

\* A refusal, with a reason: nothing else is looked at from then on.
LEMMA RefusedWithReason ==
    ASSUME Inv, AtFault, NEW who, Refuse(who),
           who = "New" => ~ source.proxies
    PROVE  Inv'
<1>0. /\ phase' = "refused" /\ by' = who
      /\ UNCHANGED <<source, forms, checked, seen, mounted>>
  BY DEF Refuse
<1>1. Typed'
  BY <1>0 DEF Inv, Typed, Phases
<1>2. Resolved'
  BY <1>0, FormsStay DEF Inv, Resolved
<1>3. Validated'
  BY <1>0 DEF Inv, Validated, validateFormFields
<1>4. Mounted'
  BY <1>0 DEF Inv, Mounted
<1>5. Ends'
  <2>1. AtFault'
    BY <1>0, AtFaultStays
  <2> QED
    BY <1>0, <2>1 DEF Ends, LoadLeavesNothingToNew, RefusedOnlyForAReason, AtFault
<1> QED
  BY <1>1, <1>2, <1>3, <1>4, <1>5 DEF Inv

\* As long as nobody refuses there is nothing to give a reason for.
LEMMA NobodyRefuses ==
    ASSUME Inv, phase' \notin {"refused", "panicked"}, phase # "refused", UNCHANGED by
    PROVE  Ends'
BY DEF Inv, Ends, LoadLeavesNothingToNew, RefusedOnlyForAReason

-----------------------------------------------------------------------------
(* Load.                                                                   *)

LEMMA InvLoad ==
    ASSUME Inv, BadLevel \/ LoadEnv \/ LoadForms
    PROVE  Inv'
<1>0. /\ phase = "loading" /\ Len(forms) = 0 /\ checked = 0 /\ Len(mounted) = 0
      /\ source \in Sources
  BY DEF Inv, Typed, Resolved, Validated, Mounted, BadLevel, LoadEnv, LoadForms
<1>1. CASE BadLevel \/ Refuse("Load")
  <2>1. AtFault
    BY <1>1, <1>0 DEF AtFault, BadLevel, LoadEnv, LoadForms, EnvComplete, EnvAtFault, FileAtFault,
                      Refuse
  <2> QED
    BY <1>1, <2>1, RefusedWithReason DEF BadLevel
<1>2. CASE LoadEnv /\ ~ Refuse("Load")
  <2>0. /\ source.kind = "env" /\ forms' = <<EnvForm>> /\ phase' = "validating"
        /\ UNCHANGED <<by, source, checked, seen, mounted>>
    BY <1>2 DEF LoadEnv
  <2>1. IsList(forms') /\ Len(forms') = 1 /\ forms'[1] = EnvForm
    BY <2>0, OneForm
  <2>2. Typed'
    BY <1>0, <2>0, <2>1 DEF Inv, Typed, Phases
  <2>3. Resolved'
    <3>1. MadeFrom(1)'
      BY <2>0, <2>1 DEF MadeFrom, EnvForm
    <3>2. FormsWanted' = 1
      BY <2>0 DEF FormsWanted
    <3>3. \A i \in 1 .. Len(forms') : i = 1
      BY <2>1
    <3> QED
      BY <2>0, <2>1, <3>1, <3>2, <3>3 DEF Resolved
  <2>4. Validated'
    <3>1. 1 .. 0 = {}
      OBVIOUS
    <3> QED
      BY <1>0, <2>0, <3>1 DEF Inv, Validated
  <2>5. Mounted'
    BY <1>0, <2>0, <2>1 DEF Inv, Mounted
  <2>6. Ends'
    BY <1>0, <2>0, NobodyRefuses
  <2> QED
    BY <2>2, <2>3, <2>4, <2>5, <2>6 DEF Inv
<1>3. CASE LoadForms /\ ~ Refuse("Load")
  <2>0. /\ source.kind = "file" /\ phase' = "resolving"
        /\ UNCHANGED <<by, source, forms, checked, seen, mounted>>
    BY <1>3 DEF LoadForms
  <2>1. Typed'
    BY <2>0 DEF Inv, Typed, Phases
  <2>2. Resolved'
    BY <2>0, FormsStay DEF Inv, Resolved
  <2>3. Validated'
    BY <1>0, <2>0 DEF Inv, Validated, validateFormFields
  <2>4. Mounted'
    BY <1>0, <2>0 DEF Inv, Mounted
  <2>5. Ends'
    BY <1>0, <2>0, NobodyRefuses
  <2> QED
    BY <2>1, <2>2, <2>3, <2>4, <2>5 DEF Inv
<1> QED
  BY <1>1, <1>2, <1>3

LEMMA InvResolveForm ==
    ASSUME Inv, ResolveForm
    PROVE  Inv'
<1>n. PICK n : n = Len(forms) + 1
  OBVIOUS
<1> DEFINE f == source.forms[n]
<1>0. /\ phase = "resolving" /\ source.kind = "file" /\ source \in Sources
      /\ IsList(forms) /\ IsList(source.forms) /\ checked = 0 /\ Len(mounted) = 0
      /\ Len(forms) < Len(source.forms)
  BY SourceFacts DEF Inv, Typed, Resolved, Validated, Mounted, ResolveForm
<1>1. /\ Len(forms) \in Nat /\ Len(source.forms) \in Nat /\ n \in Nat
      /\ n \in DOMAIN source.forms
      /\ FormsWanted = Len(source.forms)
  BY <1>0, <1>n, ListFacts DEF FormsWanted
<1>2. CASE resolveProvider(f) = {}
  <2>1. Refuse("Load")
    BY <1>2, <1>n DEF ResolveForm
  <2>2. FormAtFault(f)
    BY <1>2, NoWayForAReason
  <2>3. AtFault
    BY <1>0, <1>1, <2>2 DEF AtFault, FileAtFault
  <2> QED
    BY <2>1, <2>3, RefusedWithReason
<1>3. CASE resolveProvider(f) # {}
  <2>1. PICK way \in resolveProvider(f) :
          /\ forms' = Append(forms, FileForm(f, way))
          /\ UNCHANGED <<phase, by, source, checked, seen, mounted>>
    BY <1>3, <1>n DEF ResolveForm
  <2>2. /\ IsList(forms') /\ Len(forms') = n
        /\ \A i \in 1 .. Len(forms) : forms'[i] = forms[i]
        /\ forms'[n] = FileForm(f, way)
    BY <1>0, <1>n, <2>1, AppendLists
  <2>3. Typed'
    BY <1>0, <1>1, <2>1, <2>2 DEF Inv, Typed
  <2>4. Resolved'
    <3>1. \A i \in 1 .. Len(forms) : MadeFrom(i)'
      <4> SUFFICES ASSUME NEW i \in 1 .. Len(forms)
                   PROVE  MadeFrom(i)'
        OBVIOUS
      <4>1. MadeFrom(i) /\ forms'[i] = forms[i]
        BY <2>2 DEF Inv, Resolved
      <4> QED
        BY <2>1, <4>1, MadeFromStays
    <3>2. MadeFrom(n)'
      <4>1. PICK g : g = source.forms[n]
        OBVIOUS
      <4>2. resolveProvider(g)' = resolveProvider(g)
        BY <2>1, WaysStay
      <4>3. way \in resolveProvider(g)'
        BY <4>1, <4>2
      <4>4. source'.kind = "file" /\ source'.forms[n] = g
        BY <1>0, <2>1, <4>1
      <4>5. forms'[n] = FileForm(g, way)
        BY <2>2, <4>1
      <4>6. FileForm(g, way)' = FileForm(g, way)
        BY DEF FileForm, Limit
      <4> QED
        BY <4>3, <4>4, <4>5, <4>6 DEF MadeFrom, resolveProvider, resolveSMTP, resolveMailgun, Way,
                                      Secret, MissingSecret
    <3>3. \A i \in 1 .. Len(forms') : i \in 1 .. Len(forms) \/ i = n
      BY <1>n, <1>1, <2>2
    <3>4. FormsWanted' = FormsWanted
      BY <2>1 DEF FormsWanted
    <3> QED
      BY <1>0, <1>1, <2>1, <2>2, <3>1, <3>2, <3>3, <3>4 DEF Resolved
  <2>5. Validated'
    <3>1. 1 .. 0 = {}
      OBVIOUS
    <3> QED
      BY <1>0, <2>1, <3>1 DEF Inv, Validated
  <2>6. Mounted'
    <3>1. 1 .. 0 = {}
      OBVIOUS
    <3> QED
      BY <1>0, <1>1, <2>1, <2>2, <3>1 DEF Inv, Mounted
  <2>7. Ends'
    BY <1>0, <2>1, NobodyRefuses
  <2> QED
    BY <2>3, <2>4, <2>5, <2>6, <2>7 DEF Inv
<1> QED
  BY <1>2, <1>3

\* On to the next part of startup, with the forms as they are.
LEMMA InvNextPart ==
    ASSUME Inv, AllResolved \/ Loaded \/ Serve
    PROVE  Inv'
<1>0. /\ phase \in {"resolving", "validating", "building"}
      /\ phase' \in {"validating", "building", "serving"}
      /\ phase = "resolving" => phase' = "validating" /\ Len(forms) = Len(source.forms)
      /\ phase = "validating" => phase' = "building" /\ checked = Len(forms)
      /\ phase = "building" => phase' = "serving" /\ Len(mounted) = Len(forms)
      /\ UNCHANGED <<by, source, forms, checked, seen, mounted>>
  BY DEF AllResolved, Loaded, Serve
<1>1. Typed'
  BY <1>0 DEF Inv, Typed, Phases
<1>2. Resolved'
  <2>1. phase = "resolving" => FormsWanted = Len(source.forms)
    BY DEF Inv, Resolved, FormsWanted
  <2> QED
    BY <1>0, <2>1, FormsStay DEF Inv, Resolved
<1>3. Validated'
  BY <1>0 DEF Inv, Validated, validateFormFields
<1>4. Mounted'
  BY <1>0 DEF Inv, Mounted
<1>5. Ends'
  BY <1>0, NobodyRefuses
<1> QED
  BY <1>1, <1>2, <1>3, <1>4, <1>5 DEF Inv

-----------------------------------------------------------------------------
(* The forms of a file, as they were made.                                 *)

LEMMA FormMade ==
    ASSUME NEW i, NEW f, source.kind = "file", MadeFrom(i), f = source.forms[i]
    PROVE  LET m == MergedFor(f) IN
           /\ forms[i].id = f.id /\ forms[i].mail = f.mail /\ forms[i].origins = f.origins
           /\ forms[i].subject = f.subject /\ forms[i].limit = Limit(f.limit)
           /\ forms[i].by = IF UsesMailgun(f) THEN "mailgun" ELSE "smtp"
           /\ forms[i].who = m.who /\ forms[i].place = m.place /\ forms[i].base = m.base
           /\ forms[i].secret = Secret(m)
           /\ ~ MissingSecret(m)
           /\ forms[i].who # None => forms[i].secret # NoSecret
           /\ f.smtp = None \/ f.mailgun = None
           /\ UsesMailgun(f) =>
                /\ forms[i].who # None /\ forms[i].place # Elsewhere
                /\ f.mailgun # None \/ source.smtp = None
           /\ ~ UsesMailgun(f) => ~ SetsBoth(Outer(f)) /\ ~ SetsBoth(Inner(f))
<1>1. PICK w \in resolveProvider(f) : forms[i] = FileForm(f, w)
  BY DEF MadeFrom
<1>2. /\ forms[i].id = f.id /\ forms[i].mail = f.mail /\ forms[i].origins = f.origins
      /\ forms[i].subject = f.subject /\ forms[i].limit = Limit(f.limit)
      /\ forms[i].by = w.by /\ forms[i].who = w.who /\ forms[i].place = w.place
      /\ forms[i].base = w.base /\ forms[i].secret = w.secret
  BY <1>1 DEF FileForm
<1>3. /\ w = Way(IF UsesMailgun(f) THEN "mailgun" ELSE "smtp", MergedFor(f))
      /\ ~ MissingSecret(MergedFor(f))
      /\ w.who # None => w.secret # NoSecret
      /\ f.smtp = None \/ f.mailgun = None
      /\ UsesMailgun(f) =>
           /\ w.who # None /\ w.place # Elsewhere
           /\ f.mailgun # None \/ source.smtp = None
      /\ ~ UsesMailgun(f) => ~ SetsBoth(Outer(f)) /\ ~ SetsBoth(Inner(f))
  BY WayFound
<1>4. /\ w.by = IF UsesMailgun(f) THEN "mailgun" ELSE "smtp"
      /\ w.who = MergedFor(f).who /\ w.place = MergedFor(f).place
      /\ w.base = MergedFor(f).base /\ w.secret = Secret(MergedFor(f))
  BY <1>3 DEF Way
<1> QED
  BY <1>2, <1>3, <1>4

-----------------------------------------------------------------------------
(* validate.                                                               *)

LEMMA InvNoForms ==
    ASSUME Inv, NoForms
    PROVE  Inv'
<1>1. phase = "validating" /\ Len(forms) = 0 /\ Refuse("Load")
  BY ListFacts DEF NoForms, Inv, Typed
<1>2. FormsWanted = 0 /\ source \in Sources
  BY <1>1 DEF Inv, Typed, Resolved
<1>3. source.kind = "file" /\ source.forms = <<>>
  BY <1>2, SourceFacts, ListFacts DEF FormsWanted
<1>4. AtFault
  BY <1>3 DEF AtFault, FileAtFault
<1> QED
  BY <1>1, <1>4, RefusedWithReason

\* What validateForm turns down was at fault as it was written.
LEMMA RejectedForAReason ==
    ASSUME Inv, phase = "validating", NEW i, i = checked + 1, i <= Len(forms),
           ~ (validateFormID(forms[i].id) /\ validateFormFields(forms[i]))
    PROVE  AtFault
<1>0. /\ source \in Sources /\ checked \in Nat /\ Len(forms) \in Nat /\ Len(forms) = FormsWanted
      /\ i \in Nat /\ i \in 1 .. Len(forms) /\ checked \in Nat
      /\ MadeFrom(i)
  BY ListFacts DEF Inv, Typed, Resolved
<1>1. CASE source.kind = "env"
  <2>1. i = 1 /\ checked = 0 /\ forms[i] = EnvForm
    BY <1>0, <1>1 DEF FormsWanted, MadeFrom
  <2>2. seen = {}
    <3>1. 1 .. 0 = {}
      OBVIOUS
    <3> QED
      BY <2>1, <3>1 DEF Inv, Validated
  <2>3. validateFormID(forms[i].id)
    BY <2>1, <2>2, IdsAssumption DEF EnvForm, validateFormID
  <2>4. ~ validateFormFields(forms[i])
    BY <2>3
  <2>5. forms[i].mail = source.mail /\ forms[i].origins = source.origins /\ forms[i].subject = "fine"
    BY <2>1 DEF EnvForm
  <2> QED
    BY <1>0, <1>1, <2>4, <2>5, SourceFacts DEF validateFormFields, AtFault, EnvAtFault
<1>2. CASE source.kind = "file"
  <2>f. PICK f : f = source.forms[i]
    OBVIOUS
  <2>0. /\ i \in DOMAIN source.forms
        /\ f.mail \in {"fine", "faulty"} /\ f.origins \in {"usual", "unusual", "path", "none"}
    BY <1>0, <1>2, <2>f, SourceFacts, ListFacts DEF FormsWanted
  <2>1. /\ forms[i].id = f.id /\ forms[i].mail = f.mail /\ forms[i].origins = f.origins
        /\ forms[i].subject = f.subject
    BY <1>0, <1>2, <2>f, FormMade
  <2>2. CASE f.id \in seen
    <3>1. PICK j \in 1 .. checked : f.id = forms[j].id
      BY <2>2 DEF Inv, Validated
    <3>2. j \in 1 .. Len(forms) /\ j # i /\ j \in Nat
      BY <1>0
    <3>3. MadeFrom(j)
      BY <3>2 DEF Inv, Resolved
    <3>4. forms[j].id = source.forms[j].id
      BY <1>2, <3>3, FormMade
    <3>5. j \in DOMAIN source.forms
      BY <1>0, <1>2, <3>2, SourceFacts, ListFacts DEF FormsWanted
    <3> QED
      BY <1>2, <2>f, <2>0, <3>1, <3>2, <3>4, <3>5 DEF AtFault, FileAtFault
  <2>3. CASE f.id \notin seen
    <3>1. FormAtFault(f)
      BY <2>0, <2>1, <2>3, IdsAssumption DEF validateFormID, validateFormFields, FormAtFault
    <3> QED
      BY <1>2, <2>f, <2>0, <3>1 DEF AtFault, FileAtFault
  <2> QED
    BY <2>2, <2>3
<1> QED
  BY <1>0, <1>1, <1>2, SourceFacts

LEMMA InvValidateForm ==
    ASSUME Inv, ValidateForm
    PROVE  Inv'
<1>n. PICK n : n = checked + 1
  OBVIOUS
<1>0. /\ phase = "validating" /\ checked \in Nat /\ Len(forms) \in Nat /\ n <= Len(forms)
      /\ n \in Nat /\ Len(mounted) = 0
  BY <1>n, ListFacts DEF ValidateForm, Inv, Typed, Mounted
<1>1. CASE ~ (validateFormID(forms[n].id) /\ validateFormFields(forms[n]))
  <2>1. Refuse("Load")
    BY <1>n, <1>1 DEF ValidateForm
  <2>2. AtFault
    BY <1>n, <1>0, <1>1, RejectedForAReason
  <2> QED
    BY <2>1, <2>2, RefusedWithReason
<1>2. CASE validateFormID(forms[n].id) /\ validateFormFields(forms[n])
  <2>0. /\ seen' = seen \cup {forms[n].id} /\ checked' = n
        /\ UNCHANGED <<phase, by, source, forms, mounted>>
    BY <1>n, <1>2 DEF ValidateForm
  <2>1. forms[n].id \in WellFormedIds /\ forms[n].id \notin seen /\ validateFormFields(forms[n])
    BY <1>2 DEF validateFormID
  <2>2. Typed'
    BY <1>0, <2>0 DEF Inv, Typed
  <2>3. Resolved'
    BY <2>0, FormsStay DEF Inv, Resolved
  <2>4. Validated'
    <3>1. \A i \in 1 .. n : i \in 1 .. checked \/ i = n
      BY <1>0, <1>n
    <3>2. \A i \in 1 .. checked : i \in 1 .. n
      BY <1>0, <1>n
    <3>3. /\ seen = {forms[i].id : i \in 1 .. checked}
          /\ \A i \in 1 .. checked : forms[i].id \in WellFormedIds /\ validateFormFields(forms[i])
          /\ \A i, j \in 1 .. checked : forms[i].id = forms[j].id => i = j
      BY DEF Inv, Validated
    <3>4. n \in 1 .. n
      BY <1>0, <1>n
    <3>5. seen' = {forms[i].id : i \in 1 .. n}
      BY <2>0, <3>1, <3>2, <3>3, <3>4
    <3>6. \A i \in 1 .. n : forms[i].id \in WellFormedIds /\ validateFormFields(forms[i])
      BY <2>1, <3>1, <3>3
    <3>7. \A i, j \in 1 .. n : forms[i].id = forms[j].id => i = j
      BY <2>1, <3>1, <3>3
    <3> QED
      BY <1>0, <2>0, <3>5, <3>6, <3>7 DEF Validated, validateFormFields
  <2>5. Mounted'
    BY <2>0 DEF Inv, Mounted
  <2>6. Ends'
    BY <1>0, <2>0, NobodyRefuses
  <2> QED
    BY <2>2, <2>3, <2>4, <2>5, <2>6 DEF Inv
<1> QED
  BY <1>1, <1>2

-----------------------------------------------------------------------------
(* server.New.                                                             *)

LEMMA InvBadProxies ==
    ASSUME Inv, BadProxies
    PROVE  Inv'
<1>1. AtFault /\ Refuse("New") /\ ~ source.proxies
  BY DEF BadProxies, AtFault
<1> QED
  BY <1>1, RefusedWithReason

\* What validate has let through is turned down only over its base.
LEMMA NotBuildable ==
    ASSUME Inv, phase = "building", NEW i \in 1 .. Len(forms), ~ Buildable(forms[i])
    PROVE  /\ forms[i].base = Refused
           /\ AtFault
<1>0. /\ source \in Sources /\ MadeFrom(i) /\ validateFormFields(forms[i])
      /\ Len(forms) = FormsWanted
  BY DEF Inv, Typed, Resolved, Validated
<1>1. forms[i].subject # "broken" /\ forms[i].mail = "fine"
  BY <1>0 DEF validateFormFields
<1>2. CASE source.kind = "env"
  <2>1. forms[i].by = "smtp"
    BY <1>0, <1>2 DEF MadeFrom, EnvForm
  <2> QED
    BY <1>1, <2>1 DEF Buildable
<1>3. CASE source.kind = "file"
  <2>f. PICK f : f = source.forms[i]
    OBVIOUS
  <2>1. /\ forms[i].by = IF UsesMailgun(f) THEN "mailgun" ELSE "smtp"
        /\ forms[i].base = MergedFor(f).base
        /\ forms[i].who # None => forms[i].secret # NoSecret
        /\ UsesMailgun(f) => forms[i].who # None /\ forms[i].place # Elsewhere
    BY <1>0, <1>3, <2>f, FormMade
  <2>2. UsesMailgun(f) /\ forms[i].base = Refused
    BY <1>1, <2>1 DEF Buildable
  <2>3. MergedFor(f).base = Or(Inner(f).base, Outer(f).base)
    BY LayersMerge DEF MergedFor
  <2>4. Refused \in {Inner(f).base, Outer(f).base}
    BY <2>1, <2>2, <2>3 DEF Or
  <2>5. FormAtFault(f)
    BY <2>2, <2>4 DEF FormAtFault
  <2>6. i \in DOMAIN source.forms
    BY <1>0, <1>3, SourceFacts, ListFacts DEF FormsWanted
  <2> QED
    BY <1>3, <2>f, <2>2, <2>5, <2>6 DEF AtFault, FileAtFault
<1> QED
  BY <1>0, <1>2, <1>3, SourceFacts

LEMMA InvMountForm ==
    ASSUME Inv, MountForm
    PROVE  Inv'
<1>n. PICK n : n = Len(mounted) + 1
  OBVIOUS
<1>0. /\ phase = "building" /\ checked = Len(forms) /\ Len(forms) \in Nat /\ Len(mounted) \in Nat
      /\ n \in 1 .. Len(forms) /\ n \in Nat /\ IsList(mounted)
      /\ UNCHANGED <<source, forms, checked, seen>>
  BY <1>n, ListFacts DEF MountForm, Inv, Typed, Validated
<1>1. ~ Clashes(forms[n])
  <2>1. forms[n].id \in WellFormedIds
    BY <1>0 DEF Inv, Validated
  <2>2. \A i \in DOMAIN mounted : i \in 1 .. Len(forms) /\ i # n /\ mounted[i] = forms[i]
    <3>1. DOMAIN mounted = 1 .. Len(mounted)
      BY <1>0, ListFacts
    <3>2. \A i \in 1 .. Len(mounted) : i \in 1 .. Len(forms) /\ i # n
      BY <1>0, <1>n
    <3> QED
      BY <3>1, <3>2 DEF Inv, Mounted
  <2>3. \A i \in DOMAIN mounted : mounted[i].id # forms[n].id
    BY <1>0, <2>2 DEF Inv, Validated
  <2> QED
    BY <2>1, <2>3 DEF Clashes
<1>2. CASE ~ Buildable(forms[n])
  <2>0. phase' = "refused" /\ mounted' = mounted
    BY <1>n, <1>2 DEF MountForm
  <2>1. forms[n].base = Refused /\ AtFault
    BY <1>0, <1>2, NotBuildable
  <2>2. Typed'
    BY <1>0, <2>0 DEF Inv, Typed, Phases
  <2>3. Resolved'
    BY <1>0, <2>0, FormsStay DEF Inv, Resolved
  <2>4. Validated'
    BY <1>0, <2>0 DEF Inv, Validated, validateFormFields
  <2>5. Mounted'
    BY <1>0, <2>0 DEF Inv, Mounted
  <2>6. Ends'
    <3>1. AtFault'
      BY <1>0, <2>1, AtFaultStays
    <3>2. n \in DOMAIN forms' /\ forms'[n].base = Refused
      BY <1>0, <2>1, ListFacts DEF Inv, Typed
    <3> QED
      BY <2>0, <3>1, <3>2 DEF Ends, LoadLeavesNothingToNew, RefusedOnlyForAReason, AtFault
  <2> QED
    BY <2>2, <2>3, <2>4, <2>5, <2>6 DEF Inv
<1>3. CASE Buildable(forms[n])
  <2>0. phase' = "building" /\ by' = by /\ mounted' = Append(mounted, forms[n])
    BY <1>n, <1>1, <1>3 DEF MountForm
  <2>1. /\ IsList(mounted') /\ Len(mounted') = n
        /\ \A i \in 1 .. Len(mounted) : mounted'[i] = mounted[i]
        /\ mounted'[n] = forms[n]
    BY <1>n, <1>0, <2>0, AppendLists
  <2>2. Typed'
    BY <1>0, <2>0, <2>1 DEF Inv, Typed
  <2>3. Resolved'
    BY <1>0, <2>0, FormsStay DEF Inv, Resolved
  <2>4. Validated'
    BY <1>0, <2>0 DEF Inv, Validated, validateFormFields
  <2>5. Mounted'
    <3>1. \A i \in 1 .. n : i \in 1 .. Len(mounted) \/ i = n
      BY <1>0, <1>n
    <3> QED
      BY <1>0, <2>0, <2>1, <3>1 DEF Inv, Mounted
  <2>6. Ends'
    BY <1>0, <2>0, NobodyRefuses
  <2> QED
    BY <2>2, <2>3, <2>4, <2>5, <2>6 DEF Inv
<1> QED
  BY <1>2, <1>3

LEMMA InvNext ==
    ASSUME Inv, [Next]_vars
    PROVE  Inv'
<1>1. CASE Next
  BY <1>1, InvLoad, InvResolveForm, InvNextPart, InvNoForms, InvValidateForm, InvBadProxies,
     InvMountForm DEF Next
<1>2. CASE UNCHANGED vars
  <2>0. UNCHANGED <<phase, by, source, forms, checked, seen, mounted>>
    BY <1>2 DEF vars
  <2>1. Typed'
    BY <2>0 DEF Inv, Typed
  <2>2. Resolved'
    BY <2>0, FormsStay DEF Inv, Resolved
  <2>3. Validated'
    BY <2>0 DEF Inv, Validated, validateFormFields
  <2>4. Mounted'
    BY <2>0 DEF Inv, Mounted
  <2>5. Ends'
    <3>1. AtFault => AtFault'
      BY <2>0, AtFaultStays
    <3> QED
      BY <2>0, <3>1 DEF Inv, Ends, LoadLeavesNothingToNew, RefusedOnlyForAReason, AtFault
  <2> QED
    BY <2>1, <2>2, <2>3, <2>4, <2>5 DEF Inv
<1> QED
  BY <1>1, <1>2

-----------------------------------------------------------------------------
(* The theorems.                                                           *)

\* The invariant holds in every state of every startup (config.Load, server.New).
THEOREM InvHolds == Spec => []Inv
BY InvInit, InvNext, PTL DEF Spec

\* Whatever the blocks of a file and of however many forms, a form signs in with the
\* secret of its innermost block that gives one (mergeSMTPLayers, mergeMailgunLayers).
THEOREM SecretOfTheInnermostHolds == Spec => []SecretOfTheInnermost
<1>1. Inv => SecretOfTheInnermost
  <2> SUFFICES ASSUME Inv, source.kind = "file", NEW i \in DOMAIN forms, NEW f, NEW own,
                      f = source.forms[i],
                      own = IF NamesSecret(Inner(f)) THEN Inner(f) ELSE Outer(f)
               PROVE  IF NamesSecret(own)
                      THEN /\ forms[i].secret # NoSecret
                           /\ forms[i].secret = [from |-> "variable", of |-> own.named]
                              \/ forms[i].secret = [from |-> "file", of |-> own.inline]
                      ELSE forms[i].secret = NoSecret
    BY DEF SecretOfTheInnermost
  <2>1. MadeFrom(i)
    BY ListFacts DEF Inv, Typed, Resolved
  <2>2. forms[i].secret = Secret(MergedFor(f)) /\ ~ MissingSecret(MergedFor(f))
    BY <2>1, FormMade
  <2>3. own = Own(Outer(f), Inner(f))
    BY DEF Own
  <2> QED
    BY <2>2, <2>3, SecretOfOwn DEF MergedFor
<1> QED
  BY <1>1, InvHolds, PTL

\* Each form of a file that is served has one provider, a secret wherever it has a login,
\* and no SMTP block that gave it in both ways (resolveSMTP, validateSMTPLayers,
\* resolveProvider).
THEOREM OneProviderOneSecretHolds == Spec => []OneProviderOneSecret
<1>1. Inv => OneProviderOneSecret
  <2> SUFFICES ASSUME Inv, phase = "serving", source.kind = "file", NEW i \in DOMAIN forms,
                      NEW f, f = source.forms[i]
               PROVE  /\ f.smtp = None \/ f.mailgun = None
                      /\ forms[i].by = "mailgun" => f.mailgun # None \/ source.smtp = None
                      /\ forms[i].who # None => forms[i].secret # NoSecret
                      /\ forms[i].by = "smtp" => ~ SetsBoth(Outer(f)) /\ ~ SetsBoth(Inner(f))
    BY DEF OneProviderOneSecret
  <2>1. MadeFrom(i)
    BY ListFacts DEF Inv, Typed, Resolved
  <2>2. /\ forms[i].by = IF UsesMailgun(f) THEN "mailgun" ELSE "smtp"
        /\ forms[i].who # None => forms[i].secret # NoSecret
        /\ f.smtp = None \/ f.mailgun = None
        /\ UsesMailgun(f) => f.mailgun # None \/ source.smtp = None
        /\ ~ UsesMailgun(f) => ~ SetsBoth(Outer(f)) /\ ~ SetsBoth(Inner(f))
    BY <2>1, FormMade
  <2> QED
    BY <2>2
<1> QED
  BY <1>1, InvHolds, PTL

\* Every refusal has its reason in the environment or the file as it was written:
\* by then the form at fault is found from its merged blocks, in a list of any length.
THEOREM RefusedOnlyForAReasonHolds == Spec => []RefusedOnlyForAReason
<1>1. Inv => RefusedOnlyForAReason
  BY DEF Inv, Ends
<1> QED
  BY <1>1, InvHolds, PTL

\* What Load lets through, New builds: no route clashes, and only a base or the
\* proxies are turned down (validate against New).
THEOREM LoadLeavesNothingToNewHolds == Spec => []LoadLeavesNothingToNew
<1>1. Inv => LoadLeavesNothingToNew
  BY DEF Inv, Ends
<1> QED
  BY <1>1, InvHolds, PTL

\* What is served is the file's forms, all of them, in order, each with what its own
\* block says before the file's (ParseForms, New).
THEOREM ServedAsWrittenHolds == Spec => []ServedAsWritten
<1>1. Inv => ServedAsWritten
  <2> SUFFICES ASSUME Inv, phase = "serving"
               PROVE  ServedAsWritten
    BY DEF ServedAsWritten
  <2>0. /\ source \in Sources /\ Len(forms) = FormsWanted /\ Len(mounted) = Len(forms)
        /\ Len(mounted) \in Nat /\ DOMAIN mounted = 1 .. Len(forms)
        /\ \A i \in 1 .. Len(forms) : mounted[i] = forms[i] /\ MadeFrom(i)
    BY ListFacts DEF Inv, Typed, Resolved, Mounted
  <2>1. CASE source.kind = "env"
    <3>1. Len(mounted) = 1 /\ mounted[1] = EnvForm
      BY <2>0, <2>1 DEF FormsWanted, MadeFrom
    <3>2. EnvForm.by = "smtp" /\ EnvForm.limit = Limit(source.limit)
      BY DEF EnvForm
    <3> QED
      BY <2>1, <3>1, <3>2 DEF ServedAsWritten, Limit, DefaultRateLimitPerHour
  <2>2. CASE source.kind = "file"
    <3>1. Len(mounted) = Len(source.forms)
      BY <2>0, <2>2 DEF FormsWanted
    <3>2. ASSUME NEW i \in DOMAIN mounted, NEW f, f = source.forms[i]
          PROVE  /\ mounted[i].id = f.id
                 /\ f.limit # None => mounted[i].limit = f.limit
                 /\ f.limit = None => mounted[i].limit = 5
                 /\ mounted[i].by = "mailgun" <=> UsesMailgun(f)
                 /\ mounted[i].who = Or(Inner(f).who, Outer(f).who)
                 /\ mounted[i].place = Or(Inner(f).place, Outer(f).place)
      <4>1. mounted[i] = forms[i] /\ MadeFrom(i)
        BY <2>0
      <4>2. /\ forms[i].id = f.id /\ forms[i].limit = Limit(f.limit)
            /\ forms[i].by = IF UsesMailgun(f) THEN "mailgun" ELSE "smtp"
            /\ forms[i].who = MergedFor(f).who /\ forms[i].place = MergedFor(f).place
        BY <2>2, <3>2, <4>1, FormMade
      <4>3. /\ MergedFor(f).who = Or(Inner(f).who, Outer(f).who)
            /\ MergedFor(f).place = Or(Inner(f).place, Outer(f).place)
        BY LayersMerge DEF MergedFor
      <4>4. forms[i].by = "mailgun" <=> UsesMailgun(f)
        BY <4>2
      <4> QED
        BY <4>1, <4>2, <4>3, <4>4 DEF Limit, DefaultRateLimitPerHour
    <3>3. source.kind # "env"
      BY <2>2
    <3> QED
      BY <3>1, <3>2, <3>3 DEF ServedAsWritten
  <2> QED
    BY <2>0, <2>1, <2>2, SourceFacts
<1> QED
  BY <1>1, InvHolds, PTL
=============================================================================
