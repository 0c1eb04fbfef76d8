------------------------------ MODULE Onboarding ------------------------------
(***************************************************************************)
(* Signing in for the first time, and again: the address of the server is  *)
(* probed (step 1), an account is made or used there (step 2), and what    *)
(* the server answers is saved.  The steps only pass values on, but they   *)
(* do so from handlers that await: Enter starts a probe while another one  *)
(* runs, and a probe may end when the user is a step or two further.       *)
(*                                                                         *)
(* The desktop has the same steps, but its probe looks for a field that    *)
(* this server's answer does not have and ends in "not_crossclipper".      *)
(***************************************************************************)
EXTENDS Integers, Sequences, FiniteSets

CONSTANTS
    Servers,     \* the addresses a user may type
    Nowhere,     \* no address
    VersionOf,   \* the version a server reports: its parts, NaN for no number
    NaN,
    MIN_SERVER_VERSION,
    MaxProbes    \* bound: probes under way

ASSUME OnboardingAssumption == Nowhere \notin Servers /\ MaxProbes \in Nat
ASSUME VersionAssumption ==
    /\ NaN \notin Nat
    /\ VersionOf \in [Servers -> Seq(Nat \cup {NaN})] /\ MIN_SERVER_VERSION \in Seq(Nat)

VARIABLES
    phone,       \* TRUE for the mobile app, FALSE for the extension
    url,         \* the address in the field
    probes,      \* the probes under way, each with what it found so far
    error,       \* what the last probe of the step said
    page,        \* step
    baseUrl, signInMode,
    form,        \* submit(): where it is, and the baseUrl of its render
    accounts_at, \* the servers with an account
    mine,        \* the servers with the account of this user
    main,        \* cc.auth: the server it names, and the server that issued its token
    shareCopy,   \* the copy of it for the share extension
    \* history
    saidOpen     \* the servers that answered a probe that they are open

onboardingVars == <<phone, url, probes, error, page, baseUrl, signInMode, form, accounts_at,
                    mine, main, shareCopy, saidOpen>>
savedVars == <<accounts_at, mine, main, shareCopy>>

NoAuth == [server |-> Nowhere, token |-> Nowhere]
NoForm == [at |-> "idle", server |-> Nowhere]

\* Versions are compared part by part, the missing ones as 0; a part that is no
\* number differs from every other and is greater than none.
Part(v, i) == IF i <= Len(v) THEN v[i] ELSE 0

Differs(a, b, i) == Part(a, i) = NaN \/ Part(b, i) = NaN \/ Part(a, i) # Part(b, i)

Greater(a, b, i) ==
    IF NaN \in {Part(a, i), Part(b, i)} THEN FALSE ELSE Part(a, i) > Part(b, i)

semverGte(a, b) ==
    \A i \in 1..3 : Differs(a, b, i) /\ (\A k \in 1..i - 1 : ~Differs(a, b, k))
                    => Greater(a, b, i)

\* /health: the first account may always be made; ALLOW_REGISTRATION is off.
RegistrationOpen(s) == s \notin accounts_at

-----------------------------------------------------------------------------
Type(s) ==
    /\ page = 1 /\ url' = s
    /\ UNCHANGED <<phone, probes, error, page, baseUrl, signInMode, form, savedVars, saidOpen>>

\* next(): the button is off while a probe runs, the Enter key is not.
Next_Step ==
    /\ page = 1 /\ url # Nowhere /\ probes[url] = "none"
    /\ Cardinality({s \in Servers : probes[s] # "none"}) < MaxProbes
    /\ probes' = [probes EXCEPT ![url] = "asked"]
    /\ error' = "none"
    /\ UNCHANGED <<phone, url, page, baseUrl, signInMode, form, savedVars, saidOpen>>

ServeHealth(s) ==
    /\ probes[s] = "asked"
    /\ probes' = [probes EXCEPT ![s] = IF RegistrationOpen(s) THEN "open" ELSE "closed"]
    /\ saidOpen' = IF RegistrationOpen(s) THEN saidOpen \cup {s} ELSE saidOpen
    /\ UNCHANGED <<phone, url, error, page, baseUrl, signInMode, form, savedVars>>

\* probeServer(): no answer, 503, another program (one error here stands for the
\* three), an old server, or a good one.
ProbeFails(s) ==
    /\ probes[s] # "none"
    /\ \/ probes[s] = "asked" /\ error' = "unreachable"
       \/ /\ probes[s] # "asked" /\ ~semverGte(VersionOf[s], MIN_SERVER_VERSION)
          /\ error' = "server_too_old"
    /\ probes' = [probes EXCEPT ![s] = "none"]
    /\ UNCHANGED <<phone, url, page, baseUrl, signInMode, form, savedVars, saidOpen>>

\* Mutant: the step takes the address that the field holds by now.
OnNextOfField(s) == baseUrl' = url

\* onNext(): whichever step is shown, step 2 comes, for the server probed.
OnNext(s) == baseUrl' = s

ProbeFinds(s) ==
    /\ probes[s] \in {"open", "closed"}
    /\ semverGte(VersionOf[s], MIN_SERVER_VERSION)
    /\ probes' = [probes EXCEPT ![s] = "none"]
    /\ OnNext(s)
    /\ signInMode' = IF probes[s] = "open" THEN "create" ELSE "signin"
    /\ page' = 2
    /\ UNCHANGED <<phone, url, error, form, savedVars, saidOpen>>

-----------------------------------------------------------------------------
\* submit(): the address and the mode are those of the moment.
Submit ==
    /\ page = 2 /\ form = NoForm
    /\ form' = [at |-> IF signInMode = "create" THEN "register" ELSE "login", server |-> baseUrl]
    /\ UNCHANGED <<phone, url, probes, error, page, baseUrl, signInMode, savedVars, saidOpen>>

\* A second account, or a second try of the same, is refused.  An account may be
\* made although the answer is lost.
RegisterCall ==
    /\ form.at = "register"
    /\ IF RegistrationOpen(form.server)
       THEN /\ accounts_at' = accounts_at \cup {form.server}
            /\ mine' = mine \cup {form.server}
            /\ form' \in {[form EXCEPT !.at = "login"], NoForm}
       ELSE form' = NoForm /\ UNCHANGED <<accounts_at, mine>>
    /\ UNCHANGED <<phone, url, probes, error, page, baseUrl, signInMode, main, shareCopy, saidOpen>>

LoginCall ==
    /\ form.at = "login" /\ form.server \in mine
    /\ form' = [form EXCEPT !.at = "store"]
    /\ UNCHANGED <<phone, url, probes, error, page, baseUrl, signInMode, savedVars, saidOpen>>

\* Wrong password, no answer, a failed write or request: the form shows the error
\* and can be sent again.
SubmitFails ==
    /\ form # NoForm
    /\ form' = NoForm
    /\ UNCHANGED <<phone, url, probes, error, page, baseUrl, signInMode, savedVars, saidOpen>>

\* Mutant: the address is read again after the calls.
BundleOfNow == [server |-> baseUrl, token |-> form.server]

Bundle == [server |-> form.server, token |-> form.server]

\* saveAuth(): the app's own store, then, on the phone, the share extension's.
Store ==
    /\ form.at = "store"
    /\ main' = Bundle
    /\ form' = [form EXCEPT !.at = IF phone THEN "share" ELSE "refresh"]
    /\ UNCHANGED <<phone, url, probes, error, page, baseUrl, signInMode, accounts_at, mine,
                   shareCopy, saidOpen>>

Share ==
    /\ form.at = "share"
    /\ shareCopy' = Bundle
    /\ page' = 3 /\ form' = NoForm
    /\ UNCHANGED <<phone, url, probes, error, baseUrl, signInMode, accounts_at, mine, main, saidOpen>>

\* The background is told before step 3; the phone has no such request.
RefreshCall ==
    /\ form.at = "refresh"
    /\ page' = 3 /\ form' = NoForm
    /\ UNCHANGED <<phone, url, probes, error, baseUrl, signInMode, savedVars, saidOpen>>

-----------------------------------------------------------------------------
\* Somebody else makes the first account of a server, or this user did earlier.
OthersRegister(s) ==
    /\ s \notin accounts_at
    /\ accounts_at' = accounts_at \cup {s}
    /\ \/ mine' = mine \cup {s}
       \/ UNCHANGED mine
    /\ UNCHANGED <<phone, url, probes, error, page, baseUrl, signInMode, form, main, shareCopy,
                   saidOpen>>

\* Onboarding is shown anew after a 401 or a sign-out: with a known server it starts
\* at step 2, otherwise at step 1.  Probes of the earlier one end unheard, and a
\* submit under way is left to its end by the page that started it (module Session).
Reopen_Onboarding ==
    /\ page = 3 /\ form = NoForm
    /\ \/ page' = 2 /\ baseUrl' = main.server /\ signInMode' = "reauth"
       \/ page' = 1 /\ baseUrl' = Nowhere /\ signInMode' = "signin"
    /\ url' = baseUrl' /\ error' = "none"
    /\ probes' = [s \in Servers |-> "none"]
    /\ UNCHANGED <<phone, form, savedVars, saidOpen>>

OnboardingInit ==
    /\ phone \in BOOLEAN
    /\ url = Nowhere /\ probes = [s \in Servers |-> "none"] /\ error = "none"
    /\ page = 1 /\ baseUrl = Nowhere /\ signInMode = "signin" /\ form = NoForm
    /\ accounts_at = {} /\ mine = {} /\ main = NoAuth /\ shareCopy = NoAuth /\ saidOpen = {}

OnboardingNext ==
    \/ Next_Step \/ Submit \/ RegisterCall \/ LoginCall \/ SubmitFails \/ Store \/ Share
    \/ RefreshCall \/ Reopen_Onboarding
    \/ \E s \in Servers : \/ Type(s) \/ ServeHealth(s) \/ ProbeFails(s) \/ ProbeFinds(s)
                          \/ OthersRegister(s)

OnboardingSpec == OnboardingInit /\ [][OnboardingNext]_onboardingVars

OnboardingTypeOK ==
    /\ phone \in BOOLEAN /\ page \in 1..3
    /\ probes \in [Servers -> {"none", "asked", "open", "closed"}]
    /\ {url, baseUrl, form.server, main.server, shareCopy.server} \subseteq Servers \cup {Nowhere}
    /\ mine \subseteq accounts_at /\ accounts_at \subseteq Servers /\ saidOpen \subseteq Servers
    /\ form.at \in {"idle", "register", "login", "store", "share", "refresh"}

\* What "not older" means, by major, minor and patch number.
AtLeast(a, b) ==
    LET Newer(i) == Part(a, i) # NaN /\ Part(a, i) > Part(b, i)
        Same(i) == Part(a, i) = Part(b, i)
    IN  Newer(1) \/ (Same(1) /\ (Newer(2) \/ (Same(2) /\ (Newer(3) \/ Same(3)))))

\* However probes and submits overlap, what is saved belongs together: a token
\* is kept with the server that issued it, in the app and for the share extension,
\* and the last step is only shown when something is saved.  The second step
\* offers to make an account only on a server that answered it takes one, and
\* never on a server that is too old; no other server is called too old.
SavedBelongTogether ==
    /\ \A auth \in {main, shareCopy} : auth.server = auth.token
    /\ page = 3 => main # NoAuth
    /\ signInMode = "create" => baseUrl \in saidOpen
    /\ page > 1 => AtLeast(VersionOf[baseUrl], MIN_SERVER_VERSION)
    /\ error = "server_too_old" =>
          \E s \in Servers : ~AtLeast(VersionOf[s], MIN_SERVER_VERSION)
===============================================================================
