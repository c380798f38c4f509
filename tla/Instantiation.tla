---------------------------- MODULE Instantiation ----------------------------
(***************************************************************************)
(* Instances of template functions.  The body of a template is kept as     *)
(* tokens.  Every use of a template, in ordinary code or in the body of an *)
(* instance, pushes a request; when the source of a unit has been parsed,  *)
(* jitc_parse_ast works off the requests, and each body it parses may push *)
(* more.  Instances are symbols of the global scope that stay from unit to *)
(* unit.                                                                   *)
(*                                                                         *)
(* A template has one parameter.  An instance is a template and a type: it *)
(* is what jitc_mangle_template makes of them.  Of a body only the uses of *)
(* templates are kept, each with a type or, for the parameter, Param.      *)
(***************************************************************************)
EXTENDS RingQueue, SequencesExt

CONSTANTS
  Templates,  \* names of templates
  Types,      \* types that templates are used with
  Param,      \* the type parameter
  Bodies,     \* bodies of templates: sequences of uses
  NoTokens,   \* no body
  Forms,      \* the sets of forms of source that programs may have
  MaxSource   \* bound: definitions and uses in the source of all units together

\* What there is beyond definitions whose bodies can be parsed: templates that are
\* declared and not defined, definitions that end with the file, and bodies that
\* cannot be parsed.
AllForms == {"extern", "unfinished", "broken"}

Use == [template : Templates, type : Types \cup {Param}]
Instance == [template : Templates, type : Types]
Linkages == {"none", "static", "extern"}
Freed == -1

\* jitc_instantiation_request_t, and what jitc_parse_ast knows of the request whose
\* body it parses: what is left of the body, and the slot that it points to.
RequestType == [instance : Instance, linkage : Linkages, tokens : Bodies \cup {NoTokens}]
CurrentType == [instance : Instance, tokens : Bodies, left : Seq(Use),
                slot : Nat \cup {Freed}, linkage : Linkages]

ASSUME FormsAssumption == Forms \subseteq SUBSET AllForms
ASSUME BodiesAssumption == Bodies \subseteq Seq(Use) /\ NoTokens \notin Seq(Use)
ASSUME ParamAssumption == Param \notin Types
ASSUME NoItemAssumption == NoItem \notin CurrentType
ASSUME BoundAssumption == MaxSource \in Nat

VARIABLES
  forms,     \* the forms of source that this program has
  templates, \* the templates of the global scope
  declared,  \* linkage of the symbol of every instance
  code,      \* the body every instance was compiled from
  requests,  \* context->instantiation_requests
  current,   \* the instance whose body is parsed, with the slot of its request
  ast,       \* instances whose bodies have been parsed in this unit
  phase,     \* "idle", or the "source", the "instances" or a "body" of a unit; "astray"
  source,    \* definitions and uses so far
  waiting,   \* ghost: instances requested and not taken up, in their order
  asked,     \* ghost: instances that this unit has requested
  needed     \* ghost: instances that compiled code calls

vars == <<forms, templates, declared, code, requests, current, ast, phase, source, waiting, asked, needed>>

Init ==
  /\ forms \in Forms
  /\ templates = [t \in Templates |-> [linkage |-> "absent", tokens |-> NoTokens]]
  /\ declared = [i \in Instance |-> "absent"]
  /\ code = [i \in Instance |-> NoTokens]
  /\ requests = queue_new
  /\ current = NoItem
  /\ ast = <<>>
  /\ phase = "idle"
  /\ source = 0
  /\ waiting = <<>>
  /\ asked = {}
  /\ needed = {}

-----------------------------------------------------------------------------
(* The source of a unit.                                                   *)

Begin ==
  /\ phase = "idle"
  /\ phase' = "source"
  /\ asked' = {}
  /\ UNCHANGED <<forms, templates, declared, code, requests, current, ast, source, waiting, needed>>

InSource == phase = "source" /\ source < MaxSource /\ source' = source + 1

\* What jitc_declare_variable accepts: a template again with the linkage it has.
Agrees(t, linkage) == templates[t].linkage \in {"absent", linkage}

\* The tokens of the body are kept and not looked at: only where bodies
\* may be broken, what they use need not be there.
Define(t, linkage, body) ==
  /\ InSource
  /\ Agrees(t, linkage)
  /\ "broken" \in forms
       \/ \A use \in ToSet(body) : use.template = t \/ templates[use.template].linkage # "absent"
  /\ templates' = [templates EXCEPT ![t] = [linkage |-> linkage, tokens |-> body]]
  /\ UNCHANGED <<forms, declared, code, requests, current, ast, phase, waiting, asked, needed>>

Prototype(t) ==
  /\ "extern" \in forms
  /\ InSource
  /\ Agrees(t, "extern")
  /\ templates' = [templates EXCEPT ![t].linkage = "extern"]
  /\ UNCHANGED <<forms, declared, code, requests, current, ast, phase, waiting, asked, needed>>

\* Variant: what a template uses of itself is not asked for again.
RequestOther(i, serving) ==
  /\ templates[i.template].linkage # "absent"
  /\ LET same == serving # NoItem /\ serving.instance.template = i.template
     IN /\ requests' = IF same THEN requests
                       ELSE queue_push(requests, [instance |-> i, linkage |-> templates[i.template].linkage,
                                                  tokens |-> templates[i.template].tokens])
        /\ waiting' = IF same THEN waiting ELSE Append(waiting, i)
  /\ current' = serving
  /\ asked' = asked \cup {i}

\* The request holds what the template has when it is used.  The slot of the
\* request that is being served may be the one that is written, or freed.
Request(i, serving) ==
  /\ templates[i.template].linkage # "absent"
  /\ requests' = queue_push(requests, [instance |-> i, linkage |-> templates[i.template].linkage,
                                       tokens |-> templates[i.template].tokens])
  /\ current' = IF serving = NoItem \/ ~Full(requests) \/ serving.slot = Freed THEN serving
                ELSE [serving EXCEPT !.slot = Freed, !.linkage = requests.list[serving.slot].linkage]
  /\ waiting' = Append(waiting, i)
  /\ asked' = asked \cup {i}

UseTemplate(i) ==
  /\ InSource
  /\ Request(i, current)
  /\ UNCHANGED <<forms, templates, declared, code, ast, phase, needed>>

EndOfSource ==
  /\ phase = "source"
  /\ phase' = "instances"
  /\ UNCHANGED <<forms, templates, declared, code, requests, current, ast, source, waiting, asked, needed>>

\* jitc_parse after jitc_parse_ast has failed: what was declared stays.
Failed ==
  /\ phase' = "idle"
  /\ requests' = queue_drained(requests)
  /\ current' = NoItem
  /\ ast' = <<>>
  /\ waiting' = <<>>
  /\ UNCHANGED <<forms, code, source, asked, needed>>

SourceFails ==
  /\ phase = "source"
  /\ Failed
  /\ UNCHANGED <<forms, templates, declared>>

\* The template has been declared, but its tokens are stored when the end of the
\* body is found.
UnfinishedFails(t, linkage) ==
  /\ "unfinished" \in forms
  /\ phase = "source"
  /\ Agrees(t, linkage)
  /\ templates' = [templates EXCEPT ![t].linkage = linkage]
  /\ Failed
  /\ UNCHANGED declared

-----------------------------------------------------------------------------
(* The loop of jitc_parse_ast over the requests.                           *)

\* jitc_get_or_static finds a symbol of any linkage.  Variant: compiled code.
KnownByCode(i) == code[i] # NoTokens

Known(i) == declared[i] # "absent"

\* The request at the front of the queue is taken up.
Serving == phase = "instances" /\ requests.length > 0
NextRequest == queue_peek(requests)
Take == requests' = queue_pop(requests) /\ waiting' = Tail(waiting)

\* Variant: only requests that are served are taken from the queue.
SkipKept ==
  /\ Serving
  /\ Known(NextRequest.instance)
  /\ UNCHANGED vars

Skip ==
  /\ Serving
  /\ Known(NextRequest.instance)
  /\ Take
  /\ UNCHANGED <<forms, templates, declared, code, current, ast, phase, source, asked, needed>>

\* The template had no body when it was used.
DeclareExtern ==
  /\ Serving
  /\ ~Known(NextRequest.instance)
  /\ NextRequest.tokens = NoTokens
  /\ Take
  /\ declared' = [declared EXCEPT ![NextRequest.instance] = "extern"]
  /\ UNCHANGED <<forms, templates, code, current, ast, phase, source, asked, needed>>

\* The instance is declared when its body has been parsed: until then the slot
\* of the request is still read.
Instantiate ==
  /\ Serving
  /\ ~Known(NextRequest.instance)
  /\ NextRequest.tokens # NoTokens
  /\ Take
  /\ phase' = "body"
  /\ current' = [instance |-> NextRequest.instance, tokens |-> NextRequest.tokens, left |-> NextRequest.tokens,
                 slot |-> requests.tail, linkage |-> NextRequest.linkage]
  /\ UNCHANGED <<forms, templates, declared, code, ast, source, asked, needed>>

InBody == phase = "body"

Used(use) ==
  [template |-> use.template, type |-> IF use.type = Param THEN current.instance.type ELSE use.type]

\* The next use in the body, with the type that Param stands for.
BodyUse ==
  /\ InBody
  /\ current.left # <<>>
  /\ Request(Used(Head(current.left)), [current EXCEPT !.left = Tail(@)])
  /\ UNCHANGED <<forms, templates, declared, code, ast, phase, source, needed>>

\* Any error in the body, one that depends on the type or the use of a template
\* that is not there.
BodyFails ==
  /\ InBody
  /\ "broken" \in forms
  /\ Failed
  /\ UNCHANGED <<forms, templates, declared>>

\* What the slot of the request holds now; memory that has been freed holds what
\* it did, or nothing that means anything as a linkage.
Found == IF current.slot = Freed THEN {current.linkage, "wild"}
         ELSE {requests.list[current.slot].linkage}

EndOfBody ==
  /\ InBody
  /\ current.left = <<>>
  /\ \E linkage \in Found : declared' = [declared EXCEPT ![current.instance] = linkage]
  /\ ast' = Append(ast, [instance |-> current.instance, tokens |-> current.tokens])
  /\ current' = NoItem
  /\ phase' = "instances"
  /\ UNCHANGED <<forms, templates, code, requests, source, waiting, asked, needed>>

\* Freed memory that is in use for something else may hold anything, the number of a
\* linkage or of a typedef included.  Nothing is said of such a program.
ReadsFreed ==
  /\ InBody
  /\ current.left = <<>>
  /\ current.slot = Freed
  /\ current' = NoItem
  /\ phase' = "astray"
  /\ UNCHANGED <<forms, templates, declared, code, requests, ast, source, waiting, asked, needed>>

\* What jitc_compile leaves of an instance: a function whose symbol is extern by
\* then is passed over.
Compiled(i) ==
  IF \E n \in DOMAIN ast : ast[n].instance = i /\ declared[i] # "extern"
  THEN (CHOOSE node \in ToSet(ast) : node.instance = i).tokens
  ELSE code[i]

\* jitc_parse compiles the unit.
EndOfUnit ==
  /\ phase = "instances"
  /\ requests.length = 0
  /\ code' = [i \in Instance |-> Compiled(i)]
  /\ ast' = <<>>
  /\ phase' = "idle"
  /\ needed' = needed \cup asked
  /\ UNCHANGED <<forms, templates, declared, requests, current, source, waiting, asked>>

Parse == Skip \/ DeclareExtern \/ Instantiate \/ BodyUse \/ EndOfBody \/ ReadsFreed \/ BodyFails \/ EndOfUnit

Next ==
  \/ Begin
  \/ \E t \in Templates, linkage \in {"none", "static"} :
       \/ \E body \in Bodies : Define(t, linkage, body)
       \/ UnfinishedFails(t, linkage)
  \/ \E t \in Templates : Prototype(t)
  \/ \E i \in Instance : UseTemplate(i)
  \/ EndOfSource
  \/ SourceFails
  \/ Parse

Spec == Init /\ [][Next]_vars

\* A unit that is being parsed is parsed on: jitc_parse_ast is one call.
FairSpec == Spec /\ WF_vars(Parse)

-----------------------------------------------------------------------------
(* Properties.                                                             *)

TypeOK ==
  /\ forms \in Forms
  /\ templates \in [Templates -> [linkage : Linkages \cup {"absent"}, tokens : Bodies \cup {NoTokens}]]
  /\ declared \in [Instance -> Linkages \cup {"absent", "wild"}]
  /\ code \in [Instance -> Bodies \cup {NoTokens}]
  /\ WellFormed(requests, RequestType)
  /\ current \in CurrentType \cup {NoItem}
  /\ ast \in Seq([instance : Instance, tokens : Bodies])
  /\ phase \in {"idle", "source", "instances", "body", "astray"}
  /\ source \in 0..MaxSource
  /\ waiting \in Seq(Instance)
  /\ asked \subseteq Instance
  /\ needed \subseteq Instance

\* Requests are served in the order in which they were made and none is lost,
\* however often the ring has wrapped and grown, and also after units that failed
\* and left the ring where it was.
ServedInOrder == [n \in DOMAIN waiting |-> Contents(requests)[n].instance] = waiting
                   /\ requests.length = Len(waiting)

\* An instance is compiled once: its body is not parsed twice in a unit, nor in a
\* unit that comes after the one it was compiled in, and not within itself.
InstantiatedOnce ==
  /\ \A m, n \in DOMAIN ast : ast[m].instance = ast[n].instance => m = n
  /\ \A n \in DOMAIN ast : code[ast[n].instance] = NoTokens
  /\ InBody => code[current.instance] = NoTokens /\ \A n \in DOMAIN ast : ast[n].instance # current.instance

\* Whatever instance code calls, in whichever unit that was compiled, the instance
\* has been compiled by the end of the unit, units that failed in their source
\* notwithstanding.  Programs with the other forms break this.
Complete ==
  forms = {} /\ phase = "idle" => \A i \in needed : code[i] # NoTokens

\* However templates use each other and themselves, over finitely many types the
\* parsing of a unit ends.
UnitEnds == phase \in {"instances", "body"} ~> phase \in {"idle", "astray"}
=============================================================================
