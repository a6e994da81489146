------------------------------ MODULE MCOffice ------------------------------
(***************************************************************************)
(* The components that share no row with each other, side by side.  A      *)
(* behaviour is one of the component "part"; the others stay as they       *)
(* begin.  So one run of TLC explores every component and none of the      *)
(* products.                                                               *)
(***************************************************************************)
EXTENDS CommercialWork, Sponsorship, Provisioning, ExternalInventory, Catalog,
        WebsiteChat, SavedCollections, BrokerNotices, AdminChannel, ListingMedia, TLC

CONSTANT Parts   \* the components a run explores

ASSUME PartsAssumption ==
    Parts \subseteq {"Work", "Sponsorship", "Provisioning", "Inventory", "Catalog",
                     "Reviews", "Website", "Saved", "Notices", "Channel", "Media"}

VARIABLE part

\* One surface with room for one campaign, and a quote for each of two.
OnePackage == "p1" :> {"Search"} @@ "p2" :> {"Search"}
OnePlace == "Search" :> 1
QuotedCampaign == "q1" :> "p1" @@ "q2" :> "p2"
QuotedDays == "q1" :> 1 @@ "q2" :> 2

\* One run, which two calls serve.
RunsOfOne == "r1" :> "b1"
ChannelOfOne == "r1" :> "n1"

\* CatalogNext in two.  The Listings bear on a visit only when it is booked,
\* and for the visits one reason to withdraw the Property is as good as another.
ListingsMove ==
    \/ \E l \in CatalogListings : CatalogCommand(l)
    \/ \E reason \in InactiveReasons \cup {"None"} : SetPropertyStatus(reason)

VisitsMove ==
    \/ \E v \in Visits : VisitStep(v)
    \/ \E reason \in {"Sold", "None"} : SetPropertyStatus(reason)

others(own) ==
    /\ "Work" # own => UNCHANGED workVars
    /\ "Sponsorship" # own => UNCHANGED sponsorVars
    /\ "Provisioning" # own => UNCHANGED provisioningVars
    /\ "Inventory" # own => UNCHANGED inventoryVars
    /\ own \notin {"Catalog", "Reviews"} => UNCHANGED catalogVars
    /\ "Website" # own => UNCHANGED websiteVars
    /\ "Saved" # own => UNCHANGED savedVars
    /\ "Notices" # own => UNCHANGED noticeVars
    /\ "Channel" # own => UNCHANGED channelVars
    /\ "Media" # own => UNCHANGED mediaVars
    /\ UNCHANGED part

OfficeInit ==
    /\ part \in Parts
    /\ WorkInit /\ SponsorInit /\ ProvisioningInit /\ InventoryInit /\ CatalogInit
    /\ WebsiteInit /\ SavedInit /\ NoticesInit /\ ChannelInit /\ MediaInit
    \* Only the part that moves chooses among its initial states.
    /\ part # "Catalog" => \A l \in CatalogListings : authorized[l]
    /\ part # "Saved" => \A c \in Cookies : collection[c] = "None"
    /\ part # "Channel" => \A u \in Updates : allowed[u]

OfficeNext ==
    \/ part = "Work" /\ WorkNext /\ others("Work")
    \/ part = "Sponsorship" /\ SponsorNext /\ others("Sponsorship")
    \/ part = "Provisioning" /\ ProvisioningNext /\ others("Provisioning")
    \/ part = "Inventory" /\ InventoryNext /\ others("Inventory")
    \/ part = "Catalog" /\ ListingsMove /\ others("Catalog")
    \/ part = "Reviews" /\ VisitsMove /\ others("Reviews")
    \/ part = "Website" /\ WebsiteNext /\ others("Website")
    \/ part = "Saved" /\ SavedNext /\ others("Saved")
    \/ part = "Notices" /\ NoticesNext /\ others("Notices")
    \/ part = "Channel" /\ ChannelNext /\ others("Channel")
    \/ part = "Media" /\ MediaNext /\ others("Media")

OfficeSpec == OfficeInit /\ [][OfficeNext]_<<part, workVars, sponsorVars, provisioningVars, inventoryVars,
                 catalogVars, websiteVars, savedVars, noticeVars, channelVars, mediaVars>>

\* The type invariant of every component.
OfficeTypeOK ==
    /\ part \in Parts
    /\ WorkTypeOK /\ SponsorTypeOK /\ ProvisioningTypeOK /\ InventoryTypeOK /\ CatalogTypeOK
    /\ WebsiteTypeOK /\ SavedTypeOK /\ NoticesTypeOK /\ ChannelTypeOK /\ MediaTypeOK
=============================================================================
