CONSTANTS
    CampaignIds = {c1, c2}
    Texts = {m1}
    Admins = {a1, a2}
    Sends = {s1}
    NoCampaign = NoCampaign
    NoText = NoText
SPECIFICATION CampaignSpec
PROPERTY PublicationIsReviewed
CHECK_DEADLOCK FALSE
