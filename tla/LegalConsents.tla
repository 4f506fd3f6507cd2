----------------------------- MODULE LegalConsents -----------------------------
(*************************************************************************)
(* The legal documents of one merchant, LegalDocumentService, and the    *)
(* consents of those who register, CustomerAuthenticationService.        *)
(*                                                                       *)
(* Staff draft, edit, publish and delete documents while people read     *)
(* them: a newcomer is shown the current documents by one request and    *)
(* accepts them by a later one, when others may be current.              *)
(*************************************************************************)
EXTENDS Integers, FiniteSetsExt

CONSTANTS
  Papers,           (* Documents, rows of tenant_legal_document_versions. *)
  PaperTypes,       (* Their types.                                       *)
  LegalLocales,     (* Their locales.                                     *)
  OwnLocale,        (* The merchant's default_locale.                     *)
  LastLocale,       (* The locale that comes next, en-US.                 *)
  Newcomers,        (* People who register.                               *)
  LegalDays,        (* Bound on the days.                                 *)
  MaxDrafts         (* Bound on the changes of a draft.                   *)

ASSUME PaperTypesAssumption == {"privacy", "terms"} \subseteq PaperTypes
ASSUME LegalBoundsAssumption ==
  /\ IsFiniteSet(Papers) /\ {OwnLocale, LastLocale} \subseteq LegalLocales
  /\ LegalDays \in Nat /\ MaxDrafts \in Nat

VARIABLES
  paper,      (* tenant_legal_document_versions.                         *)
  day,        (* The database's clock.                                   *)
  newcomer,   (* Each newcomer: how and when they registered, and all that
                 they were shown before.                                  *)
  consents    (* customer_legal_consents: the documents of each customer. *)

legalVars == <<paper, day, newcomer, consents>>

PaperRow    == [state: {"absent", "draft", "published", "deleted"}, type: PaperTypes,
                locale: LegalLocales, no: Nat, words: Nat, required: BOOLEAN,
                effective: Nat]
NewcomerRow == [via: {"none", "form", "identity"}, on: Nat, shown: SUBSET (Papers \X Nat)]

LegalTypeOK ==
  /\ paper \in [Papers -> PaperRow]
  /\ day \in Nat
  /\ newcomer \in [Newcomers -> NewcomerRow]
  /\ consents \in [Newcomers -> SUBSET Papers]

LegalInit ==
  /\ paper = [p \in Papers |-> [state |-> "absent", type |-> "privacy", locale |-> OwnLocale,
                                no |-> 0, words |-> 0, required |-> FALSE, effective |-> 0]]
  /\ day = 0
  /\ newcomer = [n \in Newcomers |-> [via |-> "none", on |-> 0, shown |-> {}]]
  /\ consents = [n \in Newcomers |-> {}]

-----------------------------------------------------------------------------
(* Documents.                                                            *)

Versions(t, l) ==
  { p \in Papers : paper[p].state \in {"draft", "published"} /\ paper[p].type = t
                   /\ paper[p].locale = l }

\* A type and a locale have one draft at most, and numbers follow one another.
CreateDraft(p, t, l, required) ==
  /\ paper[p].state = "absent"
  /\ \A q \in Versions(t, l) : paper[q].state # "draft"
  /\ paper' = [paper EXCEPT ![p] =
       [state |-> "draft", type |-> t, locale |-> l, words |-> 0, required |-> required,
        effective |-> 0, no |-> 1 + Max({0} \cup { paper[q].no : q \in Versions(t, l) })]]
  /\ UNCHANGED <<day, newcomer, consents>>

\* Mutant: a document that was published can still be edited.
Reword(p, required) ==
  /\ paper[p].state \in {"draft", "published"}
  /\ paper[p].words < MaxDrafts
  /\ paper' = [paper EXCEPT ![p].words = @ + 1, ![p].required = required]
  /\ UNCHANGED <<day, newcomer, consents>>

EditDraft(p, required) ==
  /\ paper[p].state = "draft"
  /\ paper[p].words < MaxDrafts
  /\ paper' = [paper EXCEPT ![p].words = @ + 1, ![p].required = required]
  /\ UNCHANGED <<day, newcomer, consents>>

\* Staff say from when on the document is in effect, be it long ago or yet to come.
PublishDraft(p, from) ==
  /\ paper[p].state = "draft"
  /\ paper' = [paper EXCEPT ![p].state = "published", ![p].effective = from]
  /\ UNCHANGED <<day, newcomer, consents>>

RemoveDraft(p) ==
  /\ paper[p].state = "draft"
  /\ paper' = [paper EXCEPT ![p].state = "deleted"]
  /\ UNCHANGED <<day, newcomer, consents>>

DayPasses ==
  /\ day < LegalDays
  /\ day' = day + 1
  /\ UNCHANGED <<paper, newcomer, consents>>

-----------------------------------------------------------------------------
(* Newcomers.                                                            *)

Effective == { p \in Papers : paper[p].state = "published" /\ paper[p].effective <= day }

Distance(l, p) ==
  IF paper[p].locale = l THEN 0
  ELSE IF paper[p].locale = OwnLocale THEN 1 ELSE IF paper[p].locale = LastLocale THEN 2 ELSE 3

\* order by the distance of the locales, effective_at desc, version_no desc
Prior(l, p, q) ==
  \/ Distance(l, p) < Distance(l, q)
  \/ /\ Distance(l, p) = Distance(l, q)
     /\ \/ paper[p].effective > paper[q].effective
        \/ paper[p].effective = paper[q].effective /\ paper[p].no > paper[q].no

First(l, t) ==
  { p \in Effective : paper[p].type = t /\
      \A q \in Effective : paper[q].type = t => ~Prior(l, q, p) }

\* The current documents in a locale, one of each type that there is; between those
\* that are equally distant the database chooses.
Current(l) ==
  { page \in SUBSET UNION { First(l, t) : t \in PaperTypes } :
      \A t \in PaperTypes : First(l, t) # {} =>
        Cardinality({ p \in page : paper[p].type = t }) = 1 }

IsNew(n) == newcomer[n].via = "none"

\* current
SeeCurrent(n, page) ==
  /\ IsNew(n)
  /\ newcomer' = [newcomer EXCEPT ![n].shown = @ \cup { <<p, paper[p].words>> : p \in page }]
  /\ UNCHANGED <<paper, day, consents>>

\* detail
SeeDetail(n, p) ==
  /\ IsNew(n)
  /\ p \in Effective
  /\ newcomer' = [newcomer EXCEPT ![n].shown = @ \cup {<<p, paper[p].words>>}]
  /\ UNCHANGED <<paper, day, consents>>

\* A newcomer accepts documents among those the page has shown.
Seen(n) == { p \in Papers : \E w \in 0 .. MaxDrafts : <<p, w>> \in newcomer[n].shown }

Basic(p) == paper[p].type \in {"privacy", "terms"}

\* requiredRegistrationDocuments and validateRegistrationConsents, of the documents
\* that are current by now.
Validated(page, accepted) ==
  /\ \A t \in {"privacy", "terms"} : \E p \in page : paper[p].type = t
  /\ accepted \subseteq page
  /\ \A p \in page : Basic(p) \/ paper[p].required => p \in accepted

\* register records what was accepted.
RegisterByForm(n, page, accepted) ==
  /\ IsNew(n)
  /\ Validated(page, accepted)
  /\ newcomer' = [newcomer EXCEPT ![n].via = "form", ![n].on = day]
  /\ consents' = [consents EXCEPT ![n] = accepted]
  /\ UNCHANGED <<paper, day>>

\* identityLogin of somebody unknown records all current documents, those too that
\* need not be accepted, and were not.
RegisterByIdentity(n, page, accepted) ==
  /\ IsNew(n)
  /\ Validated(page, accepted)
  /\ newcomer' = [newcomer EXCEPT ![n].via = "identity", ![n].on = day]
  /\ consents' = [consents EXCEPT ![n] = page]
  /\ UNCHANGED <<paper, day>>

-----------------------------------------------------------------------------
LegalNext ==
  \/ DayPasses
  \/ \E p \in Papers :
       \/ \E t \in PaperTypes, l \in LegalLocales, required \in BOOLEAN :
            CreateDraft(p, t, l, required)
       \/ \E required \in BOOLEAN : EditDraft(p, required)
       \/ \E from \in 0 .. LegalDays : PublishDraft(p, from)
       \/ RemoveDraft(p)
       \/ \E n \in Newcomers : SeeDetail(n, p)
  \/ \E n \in Newcomers, l \in LegalLocales :
       \E page \in Current(l) :
         \/ SeeCurrent(n, page)
         \/ \E accepted \in SUBSET Seen(n) :
              RegisterByForm(n, page, accepted) \/ RegisterByIdentity(n, page, accepted)

LegalSpec == LegalInit /\ [][LegalNext]_legalVars

-----------------------------------------------------------------------------
\* What a customer is recorded to have consented to is in force and unchanged since
\* they were shown it, whatever staff did before, between and after: one document
\* of a type, published and in effect when they registered, with the words that were
\* shown; privacy and terms among them, always.  Only of those who came by way of a
\* provider, documents may be recorded they need not accept and never saw
\* (register, identityLogin, publish, update, removeDraft).
ConsentsAreInformed ==
  \A n \in Newcomers : newcomer[n].via # "none" =>
    /\ \A p \in consents[n] :
         /\ paper[p].state = "published"
         /\ paper[p].effective <= newcomer[n].on
         /\ newcomer[n].via = "form" \/ Basic(p) \/ paper[p].required =>
              <<p, paper[p].words>> \in newcomer[n].shown
         /\ \A q \in consents[n] : paper[q].type = paper[p].type => q = p
    /\ \A t \in {"privacy", "terms"} : \E p \in consents[n] : paper[p].type = t
=============================================================================
