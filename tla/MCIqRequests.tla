---------------------------- MODULE MCIqRequests ----------------------------
(***************************************************************************)
(* The services of one client: two handlers ask two remotes, three requests *)
(* at most, or the roster, with two contacts, is filled and kept.           *)
(***************************************************************************)
EXTENDS IqRequests, Roster, TLC

MCSymmetry ==
    Permutations(Handlers) \cup Permutations(Remotes)
        \cup Permutations(Contacts) \cup Permutations(Names)

MCUses ==
    {{"FetchVCard", "StoreVCard", "GetDiscoItems"},
     {"FetchSearchFields", "SearchForm", "SearchFields"},
     {"RequestXml", "StoreXml", "RequestBookmarks"},
     {"StoreBookmarks", "RequestBookmarks", "StoreAnnotations", "RequestAnnotations"},
     {"CheckAdhocSupport", "FetchAdhocCommands", "ExecuteAdhocCommand", "GetDiscoInfo"},
     {"FetchAdhocCommands", "ExecuteAdhocCommand", "GetDiscoItems"},
     {"FOCheckSupport", "FORequestNum", "FORequestHeaders", "FORequestMsgs", "FORemoveMsgs"},
     {"FetchRegistrationFields", "CreateAccount", "RemoveAccount", "LastActivity", "XMPPPing"},
     {"PLRequestNames", "PLRequestList", "PLDefault", "PLUnsetDefault",
      "PLActivate", "PLUnsetActivate", "PLRemove", "PLStore"},
     {"GetSubscriptionList", "Subscription", "Unsubscription"},
     {"GetAffiliationList", "CreateNode"}, {"DeleteNode", "PurgeNodeItems"},
     {"GetSubscriptionOptions", "SetSubscriptionOptions"}, {"GetNodeConfig", "SetNodeConfig"},
     {"RequestItems", "PublishItem"}, {"DeleteItem", "DefaultNodeConfig"},
     {"GetSubscriberList", "SetSubscriberList"}, {"GetAffiliateList", "SetAffiliateList"},
     {"SetRole", "SetAffiliation", "RequestList", "StoreList", "StoreOwnerList"},
     {"RequestRoomConfig", "SendRoomConfig", "CreateInstantRoom", "CancelRoomCreation"},
     {"DestroyRoom", "RequestUniqueName", "SetRole"},
     {"GetRoomInfo", "GetRoomItems", "RequestUniqueName"},
     {}}

\* An application that asks for nothing keeps a roster.
MCInit ==
    /\ Init /\ RosterInit
    /\ uses # {} => client.sync /\ Listed = {}
MCNext ==
    \/ uses # {} /\ Next /\ UNCHANGED rosterVars
    \/ uses = {} /\ RosterNext /\ UNCHANGED vars
MCSpec == MCInit /\ [][MCNext]_<<vars, rosterVars>>
=============================================================================
