----------------------------- MODULE MCLangMode -----------------------------
(***************************************************************************)
(* LangMode for TLC.                                                       *)
(***************************************************************************)
EXTENDS LangMode

\* Every combination of the settings but of what CapsLock locks, which matters only if
\* it locks.
MCConfigs ==
    {c \in Settings :
        \/ c.lock_chinese_on_caps_lock
        \/ c.enable_caps_lock /\ c.sync_lang_mode_openclose /\ c.switch_lang_with_shift}

\* The settings of a new installation (config.rs) that LangMode has.
DefaultConfigs == {c \in Settings : c.switch_lang_with_shift /\ ~c.sync_lang_mode_openclose
                                    /\ ~c.enable_caps_lock /\ c.lock_chinese_on_caps_lock}

\* TSF refuses nothing, or once in a process with these settings.
NoRefusals == [c \in DefaultConfigs |-> 0]
MCRefusals ==
    [c \in MCConfigs |-> IF /\ c.sync_lang_mode_openclose /\ c.enable_caps_lock
                            /\ ~c.switch_lang_with_shift /\ c.lock_chinese_on_caps_lock
                         THEN 1 ELSE 0]
=============================================================================
