------------------------------ MODULE CryptoApi ------------------------------
(***************************************************************************)
(* The SRx Crypto API (srxcryptoapi.c): binding a program to a plug-in by  *)
(* a configuration file, and the plug-in's own state (bgpsec_openssl.c).   *)
(* A program may have several SRxCryptoAPI objects; the libraries, their   *)
(* static variables and the settings for key files are there once.         *)
(*                                                                         *)
(* Keys are named by their AS number and SKI.  The storage is the set of   *)
(* keys it promises to be (KeyRegistry); KeyStorage has what it does.      *)
(***************************************************************************)
EXTENDS Integers, Sequences, FiniteSets, SequencesExt

CONSTANTS
  Apis,      \* SRxCryptoAPI objects of the program
  KeyNames,  \* keys, by AS number and SKI
  Configs,   \* configuration files that are there: name -> Config
  SysFile,   \* SYS_CFG_FILE
  LocFile,   \* LOC_CFG_FILE
  Libraries, \* plug-ins that can be opened: name -> functions exported
  Lists,     \* key list files: name -> sequence of Line
  Vault,     \* key files that can be read and pass the checks, see Loads
  LongPaths, \* names of directories that are too long for sca_SetKeyPath
  Nothing    \* a setting that is not there, NULL

Functions ==
  {"init", "release", "sign", "validate", "registerPublicKey", "unregisterPublicKey",
   "registerPrivateKey", "unregisterPrivateKey", "cleanKeys", "cleanPrivateKeys"}

(* A line of a key list: a comment or too short for an SKI, or a key.      *)
Line == [skip : BOOLEAN, key : KeyNames]

(* An element of init_value: "PUB" or "PRIV" and a file; any other type,   *)
(* or none, or no file, is an error.                                       *)
Part == [type : {"PUB", "PRIV", "wrong"}, file : STRING]

(* entry is the group that library_conf names; methods are the names it    *)
(* gives to functions.                                                     *)
Config == [parses : BOOLEAN, key_vault : STRING \cup {Nothing},
           ext_priv : STRING \cup {Nothing}, ext_pub : STRING \cup {Nothing},
           library_conf : BOOLEAN, entry : BOOLEAN, library_name : STRING,
           methods : [Functions -> STRING \cup {Nothing}], init_value : Seq(Part)]

ASSUME ApiInputs ==
  /\ IsFiniteSet(Apis)
  /\ Nothing \notin DOMAIN Libraries
ASSUME FileInputs ==
  /\ \A f \in DOMAIN Configs : Configs[f] \in Config
  /\ \A f \in DOMAIN Lists : Lists[f] \in Seq(Line)

VARIABLES
  api,      \* SRxCryptoAPI: libHandle, configFile, and what each function points to
  ready,    \* the last srxCryptoInit of the object succeeded, and it is not unbound
  settings, \* _keyPath, _key_ext_priv, _key_ext_pub
  opened,   \* libraries: times opened
  plugin,   \* static variables of the plug-ins
  answer,   \* the last call and its result
  again,    \* a plug-in in use lost its storage to another srxCryptoInit
  fault     \* a function used a key storage that is not there

apiVars == <<api, ready, settings, opened, plugin, answer, again, fault>>

(* cleared by memset: all functions are NULL.                              *)
Unbound == [libHandle |-> Nothing, configFile |-> Nothing,
            fn |-> [f \in Functions |-> "null"]]

(* store is what BOSSL_pubKeys and BOSSL_privKeys point to.                *)
NotLoaded == [initialized |-> FALSE, store |-> "null", pub |-> {}, priv |-> {}]

NoAnswer == [fn |-> "none", api |-> Nothing, ok |-> FALSE]

ApiInit ==
  /\ api = [a \in Apis |-> Unbound]
  /\ ready = [a \in Apis |-> FALSE]
  /\ settings = [path |-> "", priv |-> "", pub |-> ""]
  /\ opened = [l \in DOMAIN Libraries |-> 0]
  /\ plugin = [l \in DOMAIN Libraries |-> NotLoaded]
  /\ answer = NoAnswer
  /\ again = FALSE
  /\ fault = FALSE

Answer(fn, a, ok) == answer' = [fn |-> fn, api |-> a, ok |-> ok]

-----------------------------------------------------------------------------
(* Key files                                                               *)

(* sca_loadKey: the extension is the default where there is none yet.      *)
DEF_KEY_EXT_PRIV == "der"
DEF_KEY_EXT_PUB  == "cert"
Extension(s, private) ==
  IF private THEN IF s.priv = "" THEN DEF_KEY_EXT_PRIV ELSE s.priv
             ELSE IF s.pub = "" THEN DEF_KEY_EXT_PUB ELSE s.pub

(* impl_loadKey: the file is found by directory, SKI and extension, can be *)
(* read as what it is asked for, and its key passes the check.             *)
Loads(s, k, private) ==
  [path |-> s.path, ext |-> Extension(s, private), key |-> k, private |-> private] \in Vault

(* Bug: a key that cannot be loaded is passed over.                        *)
ReadOn(s, list, private) ==
  {list[i].key : i \in {j \in 1..Len(list) : ~list[j].skip /\ Loads(s, list[j].key, private)}}

(* _readKeyFile: the keys of the lines before the first key that cannot be *)
(* loaded.                                                                 *)
readKeyFile(s, list, private) ==
  LET stop == SelectInSeq(list, LAMBDA l : ~l.skip /\ ~Loads(s, l.key, private))
      read == IF stop = 0 THEN 1..Len(list) ELSE 1..(stop - 1)
  IN {list[i].key : i \in {j \in read : ~list[j].skip}}

ListOf(file) == IF file \in DOMAIN Lists THEN Lists[file] ELSE <<>>

(* The keys that the parts of one type bring; a list that is not there, or *)
(* breaks off, is no error.                                                *)
KeysOf(s, parts, type) ==
  UNION {readKeyFile(s, ListOf(p.file), type = "PRIV") : p \in {q \in ToSet(parts) : q.type = type}}

-----------------------------------------------------------------------------
(* The plug-in                                                             *)

(* init: a second call fails, and so does a wrong value; both give up the  *)
(* storages there are.                                                     *)
(* Bug (InitsAgain): a second call starts over.                            *)
WrongValue(parts) == \E p \in ToSet(parts) : p.type = "wrong"
InitsAgain(p, parts) == WrongValue(parts)
InitFails(p, parts) == p.initialized \/ WrongValue(parts)

Freed == [initialized |-> FALSE, store |-> "freed", pub |-> {}, priv |-> {}]
init(p, s, parts) ==
  IF InitFails(p, parts) THEN Freed
  ELSE [initialized |-> TRUE, store |-> "ready",
        pub |-> KeysOf(s, parts, "PUB"), priv |-> KeysOf(s, parts, "PRIV")]

release(p) == IF p.initialized THEN NotLoaded ELSE p

(* dlclose: with the last handle the static variables go.                  *)
Close(p, times) == IF times = 0 THEN NotLoaded ELSE p

-----------------------------------------------------------------------------
(* srxCryptoInit                                                           *)

(* _checkConfigFile                                                        *)
ConfigFile(a) ==
  IF api[a].configFile # Nothing THEN api[a].configFile
  ELSE IF SysFile \in DOMAIN Configs THEN SysFile
  ELSE IF LocFile \in DOMAIN Configs THEN LocFile
  ELSE Nothing

Parses(a) == ConfigFile(a) \in DOMAIN Configs /\ Configs[ConfigFile(a)].parses
Conf(a) == Configs[ConfigFile(a)]

(* _loadGeneralConfiguration: the extensions were set to the defaults, the *)
(* directory stays as it is if there is none or if it is too long.         *)
DefaultExtensions == [settings EXCEPT !.priv = DEF_KEY_EXT_PRIV, !.pub = DEF_KEY_EXT_PUB]
GeneralConfiguration(c) ==
  [path |-> IF c.key_vault \in LongPaths \cup {Nothing} THEN settings.path ELSE c.key_vault,
   priv |-> IF c.ext_priv = Nothing THEN DEF_KEY_EXT_PRIV ELSE c.ext_priv,
   pub  |-> IF c.ext_pub = Nothing THEN DEF_KEY_EXT_PUB ELSE c.ext_pub]
SettingsOf(a) == IF Parses(a) THEN GeneralConfiguration(Conf(a)) ELSE DefaultExtensions

(* The local wrappers; they hold no state, and answer failure except for   *)
(* the two that clean.                                                     *)
Wrappers == [f \in Functions |-> "wrap"]
WrapAnswers(f) == f \in {"cleanKeys", "cleanPrivateKeys"}

(* __doMapFunction: by the name the configuration gives, by the default    *)
(* name, or not at all.                                                    *)
Mapped(c, f) ==
  LET exports == Libraries[c.library_name] IN
  c.methods[f] \in exports \/ f \in exports
MapAPI(c) == [f \in Functions |-> IF Mapped(c, f) THEN "lib" ELSE "wrap"]

InitAgain(a) ==
  /\ api[a].libHandle # Nothing
  /\ Answer("srxCryptoInit", a, FALSE)
  /\ UNCHANGED <<api, ready, settings, opened, plugin, again, fault>>

(* No configuration, or none of a library: the wrappers stay.              *)
InitLocal(a) ==
  /\ api[a].libHandle = Nothing
  /\ ConfigFile(a) # Nothing => Parses(a) /\ ~Conf(a).library_conf
  /\ api' = [api EXCEPT ![a] =
       [libHandle |-> Nothing, configFile |-> ConfigFile(a), fn |-> Wrappers]]
  /\ ready' = [ready EXCEPT ![a] = TRUE]
  /\ settings' = SettingsOf(a)
  /\ Answer("srxCryptoInit", a, TRUE)
  /\ UNCHANGED <<opened, plugin, again, fault>>

Openable(a) ==
  /\ Parses(a)
  /\ Conf(a).library_conf /\ Conf(a).entry /\ Conf(a).library_name \in DOMAIN Libraries

(* The file is broken, has no entry for the library, or the library cannot *)
(* be opened: srxCryptoUnbind clears the object.                           *)
InitUnopened(a) ==
  /\ api[a].libHandle = Nothing
  /\ ConfigFile(a) # Nothing
  /\ Parses(a) => Conf(a).library_conf
  /\ ~Openable(a)
  /\ api' = [api EXCEPT ![a] = Unbound]
  /\ ready' = [ready EXCEPT ![a] = FALSE]
  /\ settings' = SettingsOf(a)
  /\ Answer("srxCryptoInit", a, FALSE)
  /\ UNCHANGED <<opened, plugin, again, fault>>

(* The library is opened and initialized.                                  *)
InitBound(a) ==
  LET l == Conf(a).library_name IN
  /\ api[a].libHandle = Nothing
  /\ Openable(a)
  /\ Mapped(Conf(a), "init")
  /\ ~InitFails(plugin[l], Conf(a).init_value)
  /\ api' = [api EXCEPT ![a] =
       [libHandle |-> l, configFile |-> ConfigFile(a), fn |-> MapAPI(Conf(a))]]
  /\ ready' = [ready EXCEPT ![a] = TRUE]
  /\ settings' = SettingsOf(a)
  /\ opened' = [opened EXCEPT ![l] = @ + 1]
  /\ plugin' = [plugin EXCEPT ![l] = init(@, SettingsOf(a), Conf(a).init_value)]
  /\ Answer("srxCryptoInit", a, TRUE)
  /\ UNCHANGED <<again, fault>>

(* The library is opened but its init fails or is not there: it is         *)
(* released, and closed again by srxCryptoUnbind.                          *)
InitRefused(a) ==
  LET c == Conf(a)
      l == c.library_name
      tried == IF Mapped(c, "init") THEN init(plugin[l], SettingsOf(a), c.init_value) ELSE plugin[l]
  IN
  /\ api[a].libHandle = Nothing
  /\ Openable(a)
  /\ Mapped(c, "init") => InitFails(plugin[l], c.init_value)
  /\ api' = [api EXCEPT ![a] = Unbound]
  /\ ready' = [ready EXCEPT ![a] = FALSE]
  /\ settings' = SettingsOf(a)
  /\ plugin' = [plugin EXCEPT ![l] =
       Close(IF Mapped(c, "release") THEN release(tried) ELSE tried, opened[l])]
  /\ again' = (again \/ (plugin[l].initialized /\ plugin'[l] # plugin[l]))
  /\ Answer("srxCryptoInit", a, FALSE)
  /\ UNCHANGED <<opened, fault>>

-----------------------------------------------------------------------------
(* Use of an object                                                        *)

(* The user names a configuration file before srxCryptoInit.               *)
SetConfig(a, file) ==
  /\ api[a] = Unbound
  /\ api' = [api EXCEPT ![a].configFile = file]
  /\ UNCHANGED <<ready, settings, opened, plugin, answer, again, fault>>

(* Bug: the handle is only closed if the plug-in has a release.            *)
CloseIfReleased(a) ==
  LET l == api[a].libHandle IN
  /\ l # Nothing
  /\ IF api[a].fn["release"] = "lib"
     THEN /\ opened' = [opened EXCEPT ![l] = @ - 1]
          /\ plugin' = [plugin EXCEPT ![l] = Close(release(@), opened[l] - 1)]
     ELSE UNCHANGED <<opened, plugin>>

(* srxCryptoUnbind of an object with a library.                            *)
ReleaseAndClose(a) ==
  LET l == api[a].libHandle IN
  /\ l # Nothing
  /\ opened' = [opened EXCEPT ![l] = @ - 1]
  /\ plugin' = [plugin EXCEPT ![l] =
       Close(IF api[a].fn["release"] = "lib" THEN release(@) ELSE @, opened[l] - 1)]

Unbind(a) ==
  /\ \/ ReleaseAndClose(a)
     \/ api[a].libHandle = Nothing /\ UNCHANGED <<opened, plugin>>
  /\ api' = [api EXCEPT ![a] = Unbound]
  /\ ready' = [ready EXCEPT ![a] = FALSE]
  /\ Answer("srxCryptoUnbind", a, TRUE)
  /\ UNCHANGED <<settings, again, fault>>

(* What a function of the plug-in makes of its storage, and whether it     *)
(* succeeds.  cleanKeys for any other source than 0 takes nothing.         *)
KeyCall(p, f, k, source) ==
  CASE f = "registerPublicKey"    -> [p EXCEPT !.pub = @ \cup {k}]
    [] f = "unregisterPublicKey"  -> [p EXCEPT !.pub = @ \ {k}]
    [] f = "registerPrivateKey"   -> [p EXCEPT !.priv = @ \cup {k}]
    [] f = "unregisterPrivateKey" -> [p EXCEPT !.priv = @ \ {k}]
    [] f = "cleanKeys"            -> IF source = 0 THEN [p EXCEPT !.pub = {}] ELSE p
    [] f = "cleanPrivateKeys"     -> [p EXCEPT !.priv = {}]
    [] OTHER -> p
Succeeds(p, f, k) ==
  CASE f = "sign"     -> k \in p.priv
    [] f = "validate" -> k \in p.pub
    [] OTHER -> TRUE

(* A call through the object, which only a successful srxCryptoInit allows.*)
Call(a, f, k, source) ==
  LET l == api[a].libHandle IN
  /\ ready[a]
  /\ f \notin {"init", "release"}
  /\ \/ /\ api[a].fn[f] = "wrap"
        /\ Answer(f, a, WrapAnswers(f))
        /\ UNCHANGED <<plugin, fault>>
     \/ /\ api[a].fn[f] = "lib" /\ plugin[l].store = "ready"
        /\ Answer(f, a, Succeeds(plugin[l], f, k))
        /\ plugin' = [plugin EXCEPT ![l] = KeyCall(@, f, k, source)]
        /\ UNCHANGED fault
     \/ /\ api[a].fn[f] = "lib" /\ plugin[l].store # "ready"
        /\ fault' = TRUE
        /\ UNCHANGED <<answer, plugin>>
  /\ UNCHANGED <<api, ready, settings, opened, again>>

ApiNext ==
  /\ ~fault
  /\ \E a \in Apis :
       \/ \E file \in DOMAIN Configs : SetConfig(a, file)
       \/ InitAgain(a) \/ InitLocal(a) \/ InitUnopened(a) \/ InitBound(a) \/ InitRefused(a)
       \/ Unbind(a)
       \/ \E f \in Functions, k \in KeyNames, source \in {0, 1} : Call(a, f, k, source)

ApiSpec == ApiInit /\ [][ApiNext]_apiVars

-----------------------------------------------------------------------------
(* Properties                                                              *)

Held(l) == {a \in Apis : api[a].libHandle = l}

(* A library is open as often as objects hold it: a refused srxCryptoInit, *)
(* whatever failed in it, leaves no handle behind, and a plug-in's keys    *)
(* are gone when the last object that could use them is unbound            *)
(* (srxCryptoInit, srxCryptoUnbind, init, release).                        *)
NothingLeftBehind ==
  \A l \in DOMAIN Libraries :
    /\ opened[l] = Cardinality(Held(l))
    /\ \A a \in Held(l) : ready[a]
    /\ Held(l) = {} => plugin[l] = NotLoaded

(* As long as no plug-in in use was initialized again, an object whose     *)
(* last srxCryptoInit succeeded can be used: no function is NULL, and      *)
(* those of the plug-in find its key storage, however often objects were   *)
(* bound, refused and unbound before (srxCryptoInit, init, release).       *)
ReadyApisWork ==
  ~again =>
    /\ ~fault
    /\ \A a \in Apis : ready[a] =>
         /\ \A f \in Functions : api[a].fn[f] # "null"
         /\ api[a].libHandle # Nothing =>
              plugin[api[a].libHandle].initialized /\ plugin[api[a].libHandle].store = "ready"

(* After an srxCryptoInit the plug-in has the keys that its lists name,    *)
(* each with all before it in its list, from the directory and with the    *)
(* extension of the same configuration, whatever other objects were given  *)
(* before (_loadGeneralConfiguration, init, _readKeyFile).                 *)
OwnSettings(c) ==
  [path |-> c.key_vault,
   priv |-> IF c.ext_priv = Nothing THEN DEF_KEY_EXT_PRIV ELSE c.ext_priv,
   pub  |-> IF c.ext_pub = Nothing THEN DEF_KEY_EXT_PUB ELSE c.ext_pub]
Listed(c, type) ==
  {k \in KeyNames : \E p \in ToSet(c.init_value) : p.type = type /\
     LET L == ListOf(p.file) IN
     \E i \in DOMAIN L : /\ L[i].key = k /\ ~L[i].skip
                         /\ \A j \in 1..i : L[j].skip \/ Loads(OwnSettings(c), L[j].key, type = "PRIV")}
KeysAsListed ==
  answer.fn = "srxCryptoInit" /\ answer.ok /\ api[answer.api].libHandle # Nothing =>
    LET a == answer.api
        c == Configs[api[a].configFile]
        p == plugin[api[a].libHandle]
    IN c.key_vault \notin LongPaths \cup {Nothing} =>
         p.pub = Listed(c, "PUB") /\ p.priv = Listed(c, "PRIV")
=============================================================================
